---- MODULE Spec2Model ----
(***************************************************************************)
(* State-machine model of the Hybrid DV/HDR tool view (HybridDVHDRTool),   *)
(* the revision with an HDR and an HDR10+ source field, smoothed ETA,      *)
(* presets and notifications (src/unnamed/part_001, lines 163-1188), and   *)
(* of the host bridge it uses (src/unnamed/part_000).                      *)
(*                                                                         *)
(* Handlers are modelled as operations with the guards and early returns   *)
(* of their own code.  A control that the view disables or hides while     *)
(* status is processing (isProcessing) cannot fire then.  The view's       *)
(* other `disabled` and rendering conditions repeat the validation of the  *)
(* handlers; they are modelled as separate operators (startDisabled) and   *)
(* are not guards, so that a handler is exercised on every input its code  *)
(* distinguishes.                                                          *)
(*                                                                         *)
(* A string is a sequence of one-character strings, so that endsWith,      *)
(* includes, split and toLowerCase are computed and not assumed.           *)
(***************************************************************************)
EXTENDS Integers, Sequences, FiniteSets, TLC

\* ------------------------------------------------------------------ bounds
\* Number of items in the queue the list handlers start from.
QueueItems == 3
\* Largest number of host commands of one kind in flight.
MaxPending == 1
\* Largest number of simulateProcessing calls started in one run.
MaxSims == 2
\* Largest number of notify calls in one run.
MaxNotify == 2
\* Largest queue the model builds.
MaxQueue == 2
\* Largest number of console lines the model keeps.
MaxLogs == 2
\* Number of identifiers crypto.randomUUID() hands out in one run.
MaxIds == 2
\* Largest number of stored presets.
MaxPresets == 1
\* Latest value of Date.now(), in milliseconds after the start of the run.
MaxNow == 20000
\* Latest value of Date.now() in a run of the debounced-persistence revision.
MaxDebounceNow == 2000

\* ----------------------------------------------------------------- strings
Empty == << >>

\* "m.mkv": a file-like path.
FileA == <<"m", ".", "m", "k", "v">>
\* "d": a folder-like path (trailing separator).
DirA == <<"d", "\\">>

\* The paths a dialog returns or a drop carries.
PathInputs == {FileA}
\* The texts typed into a path field.
TypedInputs == {Empty, FileA}

\* Names of dropped entries: "HDR10+", "DoVi", "hdr", "x".
NameHdr10 == <<"H", "D", "R", "1", "0", "+">>
NameDovi == <<"D", "o", "V", "i">>
NameHdr == <<"h", "d", "r">>
NameOther == <<"x">>
DropNames == {Empty, NameHdr10, NameDovi, NameHdr, NameOther}

UpperChars == <<"A","B","C","D","E","F","G","H","I","J","K","L","M",
                "N","O","P","Q","R","S","T","U","V","W","X","Y","Z">>
LowerChars == <<"a","b","c","d","e","f","g","h","i","j","k","l","m",
                "n","o","p","q","r","s","t","u","v","w","x","y","z">>

\* String.prototype.toLowerCase on one character.
lowerChar(c) ==
  IF \E i \in 1..26 : UpperChars[i] = c
  THEN LowerChars[CHOOSE i \in 1..26 : UpperChars[i] = c]
  ELSE c

\* String.prototype.toLowerCase.
toLowerCase(s) == [i \in 1..Len(s) |-> lowerChar(s[i])]

\* String.prototype.includes.
includes(s, sub) ==
  \E i \in 0..(Len(s) - Len(sub)) : SubSeq(s, i + 1, i + Len(sub)) = sub

\* String.prototype.endsWith for a one-character suffix.
endsWith(s, c) == Len(s) > 0 /\ s[Len(s)] = c

KwHdr10 == <<"h", "d", "r", "1", "0">>
KwHdr10Plus == <<"h", "d", "r", "1", "0", "+">>
KwHdr10PlusWord == <<"h", "d", "r", "1", "0", "p", "l", "u", "s">>
KwDv == <<"d", "v">>
KwDovi == <<"d", "o", "v", "i">>
KwDolby == <<"d", "o", "l", "b", "y">>
KwHdr == <<"h", "d", "r">>

\* --------------------------------------------------------------- constants
Kinds == {"file", "folder", "unknown"}
Statuses == {"idle", "processing", "completed", "error"}
Targets == {"hdr", "dv", "output", "hdr10plus"}

defaultToolPaths ==
  [doviTool |-> "dovi_tool", mkvmerge |-> "mkvmerge", mkvextract |-> "mkvextract",
   ffmpeg |-> "ffmpeg", mediainfo |-> "MediaInfo", mp4box |-> "MP4Box",
   hdr10plusTool |-> "hdr10plus_tool", defaultOutput |-> <<"D", "V", ".", "H", "D", "R">>]

defaultSteps == [i \in 1..6 |-> [id |-> i, status |-> "pending", progress |-> 0]]

initialConfig ==
  [hdrPath |-> Empty, dvPath |-> Empty, outputPath |-> Empty, hdr10plusPath |-> Empty,
   dvDelayMs |-> 0, hdr10plusDelayMs |-> 0, mode |-> "single",
   parallelTasks |-> 4, keepTempFiles |-> FALSE]

initialPathKinds ==
  [hdr |-> "unknown", hdr10plus |-> "unknown", dv |-> "unknown", output |-> "unknown"]

\* An optional string that is absent (undefined, or null from a cancelled dialog);
\* no string, since a string holds one-character elements only.
None == <<"undefined">>

\* An optional number: absent, or present with value n.
Absent == << >>
Some(n) == <<n>>

\* ---------------------------------------------------------------- state
VARIABLES
  config,              \* ProcessingConfig
  pathKinds,           \* kind of each path field
  toolPaths,           \* ToolPaths
  dvDelayInput,        \* text of the DV delay field
  hdr10plusDelayInput, \* text of the HDR10+ delay field
  showDelays,          \* delay fields shown
  presets,             \* sequence of saved presets
  selectedPresetId,    \* id of the preset shown as selected, 0 for ''
  queue,               \* sequence of QueueFile
  selectedQueueIds,    \* set of queue item ids
  status,              \* displayed ProcessingStatus
  steps,               \* the six ProcessingSteps
  logs,                \* console lines
  fileProgress,        \* sequence of FileProgressEntry
  queueMetaRef,        \* queueMetaRef.current: item id -> ETA samples
  fileMetaRef,         \* fileMetaRef.current: file id -> ETA samples
  statusRef,           \* statusRef.current
  tauri,               \* isTauri(): the host runtime is present
  uuid,                \* number of identifiers handed out by crypto.randomUUID()
  now,                 \* Date.now(), in milliseconds
  inFlight,            \* requests of the start_processing commands not yet settled
  pendingCancel,       \* cancel_processing commands issued and not yet settled
  sims,                \* running simulateProcessing calls, oldest first
  notifyCalls,         \* calls of notify that reached the permission check
  lastEvent,           \* history: status carried by the latest processing:status event
  prevEvent,           \* history: status carried by the event before the latest
  unlisten,            \* the unlisten variables of the effect that are assigned
  active,              \* event subscriptions active in the host
  setupPc,             \* registrations setupListeners has completed
  tornDown,            \* the effect's cleanup has run
  storage,             \* localStorage: the entries of the three settings keys
  mounted,             \* the mount effects (load, then save) have run
  fatal,               \* the page content was replaced by showFatal
  debounce,            \* the debounced-persistence revision: its pending timeouts
                       \* and the draft of the tool settings
  lastOp               \* history: the handler that ran last and the id it was given

formVars == <<config, pathKinds, toolPaths, dvDelayInput, hdr10plusDelayInput, showDelays>>
presetVars == <<presets, selectedPresetId>>
queueVars == <<queue, selectedQueueIds>>
runVars == <<status, steps, fileProgress>>
metaVars == <<queueMetaRef, fileMetaRef>>
hostVars == <<inFlight, pendingCancel>>
notifyVars == <<statusRef, notifyCalls, lastEvent, prevEvent>>
listenVars == <<unlisten, active, setupPc, tornDown>>
pageVars == <<storage, mounted, fatal, debounce>>
envVars == <<tauri, uuid, now, pageVars>>

vars == <<formVars, presetVars, queueVars, runVars, logs, metaVars, hostVars, sims,
          notifyVars, listenVars, envVars, lastOp>>

\* What a handler of the form leaves alone besides the form, the presets and the queue.
restVars == <<runVars, metaVars, hostVars, sims, notifyVars, listenVars>>

\* ------------------------------------------------------------- derived
\* part_001:493
derivedHdrPath == IF config.hdrPath # Empty THEN config.hdrPath ELSE config.hdr10plusPath

\* A kind read from the HDR field whichever source is populated: C23 does not
\* survive it.
derivedHdrKindHdrOnly == pathKinds.hdr

\* part_001:494
derivedHdrKind == IF config.hdrPath # Empty THEN pathKinds.hdr ELSE pathKinds.hdr10plus

\* part_001:495-500
derivedMode ==
  IF Len(queue) > 0 THEN "batch"
  ELSE IF derivedHdrKind = "folder" /\ pathKinds.dv = "folder" THEN "batch"
  ELSE "single"

\* derivedMode of the two earlier revisions (part_001:1414-1415, 2120-2121),
\* which have no HDR10+ field.
derivedModePathOnly ==
  IF pathKinds.hdr = "folder" /\ pathKinds.dv = "folder" THEN "batch" ELSE "single"

\* A classification that knows the backslash only: C21 does not survive it.
inferPathKindBackslash(value) ==
  IF value = Empty THEN "unknown"
  ELSE IF endsWith(value, "\\") THEN "folder"
  ELSE "file"

\* part_001:332-336
inferPathKind(value) ==
  IF value = Empty THEN "unknown"
  ELSE IF endsWith(value, "\\") \/ endsWith(value, "/") THEN "folder"
  ELSE "file"

\* The kind a text-entry handler gives the text it receives (part_001:981).
typedKind(v) == IF endsWith(v, "\\") \/ endsWith(v, "/") THEN "folder" ELSE "file"

\* A console message: the template's text, the numbers and the string it
\* interpolates.
Msg(text, nums, arg) == [text |-> text, nums |-> nums, arg |-> arg]

\* addLog (part_001:268-276): the entry's id and timestamp are not modelled.
LogEntry(type, message) == [type |-> type, message |-> message]

addLog(l, type, message) == Append(l, LogEntry(type, message))

\* The history of a step: handler `op` ran, for the item or file `id` (0 when the
\* handler takes none).
Did(op, id) == lastOp' = [op |-> op, id |-> id]

\* ------------------------------------------------------------ persistence
\* A JSON value: null, a number, a boolean, a string, an object (its fields) or
\* an array (its items).
JNull == [t |-> "null"]
JNum(n) == [t |-> "number", num |-> n]
JBool(b) == [t |-> "boolean", bool |-> b]
JStr(str) == [t |-> "string", str |-> str]
JObj(fields) == [t |-> "object", obj |-> fields]
JArr(items) == [t |-> "array", arr |-> items]

\* The JavaScript value of a JSON number, boolean or string.
scalarOf(j) ==
  IF j.t = "number" THEN j.num
  ELSE IF j.t = "boolean" THEN j.bool
  ELSE IF j.t = "string" THEN j.str
  ELSE j

\* What localStorage.getItem returns: null for a key that was never set, else the
\* stored text, which JSON.parse takes (to the value) or throws on.
NoEntry == [kind |-> "none"]
NotJson == [kind |-> "text", valid |-> FALSE]
JsonText(j) == [kind |-> "text", valid |-> TRUE, value |-> j]

\* JSON.stringify({ parallelTasks, keepTempFiles }) (part_001:316-319).
stringifyConfig(c) ==
  JsonText(JObj([parallelTasks |-> JNum(c.parallelTasks),
                 keepTempFiles |-> JBool(c.keepTempFiles)]))

\* JSON.stringify(toolPaths) (part_001:323).
stringifyTools(t) == JsonText(JObj([k \in DOMAIN t |-> JStr(t[k])]))

\* JSON.stringify(presets) (part_001:327): the array of the presets, each an
\* object.
stringifyPresets(ps) == JsonText(JArr([i \in 1..Len(ps) |-> JObj(ps[i])]))

\* localStorage once the three save effects have run (part_001:315-328).
stored(c, t, ps) ==
  [config |-> stringifyConfig(c), tools |-> stringifyTools(t), presets |-> stringifyPresets(ps)]

\* No timeout of the debounced-persistence revision is pending and the draft of
\* the tool settings holds the tool paths it was opened with (part_002:185).  The
\* revision with presets saves at once (part_001:315-328) and stays in this state.
noTimeouts ==
  [configSave |-> << >>, toolPathsSave |-> << >>, paths |-> defaultToolPaths,
   pathsSave |-> << >>]

\* ------------------------------------------------------------------ Init
\* The view as constructed: every useState and useRef at its initial value
\* (part_001:219-266), no listener registered.
constructed ==
  /\ config = initialConfig
  /\ pathKinds = initialPathKinds
  /\ toolPaths = defaultToolPaths
  /\ dvDelayInput = Empty
  /\ hdr10plusDelayInput = Empty
  /\ showDelays = FALSE
  /\ presets = << >>
  /\ selectedPresetId = 0
  /\ queue = << >>
  /\ selectedQueueIds = {}
  /\ status = "idle"
  /\ steps = defaultSteps
  /\ logs = << >>
  /\ fileProgress = << >>
  /\ queueMetaRef = << >>
  /\ fileMetaRef = << >>
  /\ statusRef = "idle"
  /\ tauri \in BOOLEAN
  /\ uuid = 0
  /\ now = 0
  /\ inFlight = << >>
  /\ pendingCancel = 0
  /\ sims = << >>
  /\ notifyCalls = 0
  /\ lastEvent = "none"
  /\ prevEvent = "none"
  /\ unlisten = {}
  /\ active = {}
  /\ setupPc = 0
  /\ tornDown = FALSE
  /\ fatal = FALSE
  /\ debounce = noTimeouts
  /\ lastOp = [op |-> "init", id |-> 0]

\* The view of a first launch, once its mount effects have run on an empty
\* localStorage and stored the defaults.
Init ==
  /\ constructed
  /\ storage = stored(initialConfig, defaultToolPaths, << >>)
  /\ mounted = TRUE

\* The page shows the view and the view's effects have run.
interactive == mounted /\ ~fatal

\* isProcessing (part_001:914).  While it holds the path fields, Add to Queue and
\* Clear are disabled and the Start button is replaced by Stop (part_001:985,
\* 1000, 1018, 1033, 1081, 1139, 1166): those controls cannot fire.
isProcessing == status = "processing"

\* ------------------------------------------------------- path assignment
\* The config after a path is assigned to a field by browse (part_001:647-656,
\* 685-694, 710-719, 735-744): the HDR10+ field clears HDR and HDR clears HDR10+.
assignPath(prev, target, value) ==
  IF target = "hdr10plus" THEN [prev EXCEPT !.hdr10plusPath = value, !.hdrPath = Empty]
  ELSE IF target = "hdr" THEN [prev EXCEPT !.hdr10plusPath = Empty, !.hdrPath = value]
  ELSE IF target = "dv" THEN [prev EXCEPT !.dvPath = value]
  ELSE [prev EXCEPT !.outputPath = value]

\* onChange of the HDR field (part_001:979-982).
typeHdr(prev, v) == [prev EXCEPT !.hdrPath = v, !.hdr10plusPath = Empty]

\* onChange of the HDR10+ field (part_001:1009-1015).
typeHdr10plus(prev, v) == [prev EXCEPT !.hdr10plusPath = v, !.hdrPath = Empty]

\* Text entry in one of the four path fields (part_001:979-1030).
TextEntry(target, v) ==
  /\ ~isProcessing
  /\ config' = (IF target = "hdr" THEN typeHdr(config, v)
                ELSE IF target = "hdr10plus" THEN typeHdr10plus(config, v)
                ELSE IF target = "dv" THEN [config EXCEPT !.dvPath = v]
                ELSE [config EXCEPT !.outputPath = v])
  /\ pathKinds' = [pathKinds EXCEPT ![target] = typedKind(v)]
  /\ UNCHANGED <<toolPaths, dvDelayInput, hdr10plusDelayInput, showDelays,
                 presetVars, queueVars, logs, restVars, envVars>>

\* A browse that installs whatever the dialog returned: C20 does not survive it.
browseFileAnyResult(target, selected) ==
  /\ ~isProcessing
  /\ config' = assignPath(config, target, selected)
  /\ pathKinds' = [pathKinds EXCEPT ![target] = "file"]
  /\ UNCHANGED <<toolPaths, dvDelayInput, hdr10plusDelayInput, showDelays,
                 presetVars, queueVars, logs, restVars, envVars>>

\* browseFile (part_001:642-703).  `selected` is what the dialog (host present)
\* or the prompt (host absent) returned; None is a cancelled dialog.
browseFile(target, selected) ==
  /\ ~isProcessing
  /\ IF selected # None /\ (tauri \/ selected # Empty)
     THEN /\ config' = assignPath(config, target, selected)
          /\ pathKinds' = [pathKinds EXCEPT ![target] = "file"]
     ELSE /\ UNCHANGED <<config, pathKinds>>
  /\ UNCHANGED <<toolPaths, dvDelayInput, hdr10plusDelayInput, showDelays,
                 presetVars, queueVars, logs, restVars, envVars>>

\* browseFolder (part_001:705-753).
browseFolder(target, selected) ==
  /\ ~isProcessing
  /\ IF selected # None /\ (tauri \/ selected # Empty)
     THEN /\ config' = assignPath(config, target, selected)
          /\ pathKinds' = [pathKinds EXCEPT ![target] = "folder"]
     ELSE /\ UNCHANGED <<config, pathKinds>>
  /\ UNCHANGED <<toolPaths, dvDelayInput, hdr10plusDelayInput, showDelays,
                 presetVars, queueVars, logs, restVars, envVars>>

\* The slot handleDropAssign gives a dropped entry (part_001:545-566).
dropSlot(path, name) ==
  LET label == IF name # Empty THEN toLowerCase(name) ELSE toLowerCase(path)
      isHdr10plus == includes(label, KwHdr10) \/ includes(label, KwHdr10Plus)
                       \/ includes(label, KwHdr10PlusWord)
      isDv == includes(label, KwDv) \/ includes(label, KwDovi) \/ includes(label, KwDolby)
      isHdr == includes(label, KwHdr)
  IN IF isHdr10plus THEN "hdr10plus"
     ELSE IF isDv \/ (config.dvPath = Empty /\ ~isHdr) THEN "dv"
     ELSE IF isHdr \/ config.hdrPath = Empty THEN "hdr"
     ELSE "none"

\* A drop on the HDR slot that keeps the HDR10+ path: C1 does not survive it.
dropHdrKeep(prev, path) == [prev EXCEPT !.hdrPath = path]

\* The config after a drop is assigned to the HDR slot (part_001:563).
dropHdr(prev, path) == [prev EXCEPT !.hdrPath = path, !.hdr10plusPath = Empty]

\* handleDropAssign (part_001:544-567).
handleDropAssign(path, isFolder, name) ==
  LET slot == dropSlot(path, name)
      kind == IF isFolder THEN "folder" ELSE "file"
  IN /\ IF slot = "hdr10plus"
        THEN /\ config' = [config EXCEPT !.hdr10plusPath = path, !.hdrPath = Empty]
             /\ pathKinds' = [pathKinds EXCEPT !.hdr10plus = kind]
        ELSE IF slot = "dv"
        THEN /\ config' = [config EXCEPT !.dvPath = path]
             /\ pathKinds' = [pathKinds EXCEPT !.dv = kind]
        ELSE IF slot = "hdr"
        THEN /\ config' = dropHdr(config, path)
             /\ pathKinds' = [pathKinds EXCEPT !.hdr = kind]
        ELSE UNCHANGED <<config, pathKinds>>
     /\ UNCHANGED <<toolPaths, dvDelayInput, hdr10plusDelayInput, showDelays,
                    presetVars, queueVars, logs, restVars, envVars>>

\* ------------------------------------------------------------- the queue
\* s.split('\\'): the segments of s between backslashes, in order.
RECURSIVE splitFrom(_, _, _)
splitFrom(s, i, cur) ==
  IF i > Len(s) THEN <<cur>>
  ELSE IF s[i] = "\\" THEN <<cur>> \o splitFrom(s, i + 1, Empty)
  ELSE splitFrom(s, i + 1, Append(cur, s[i]))

split(s) == splitFrom(s, 1, Empty)

\* s.split('\\').filter(Boolean).pop() || s  (part_001:617-618)
pathLabel(s) ==
  LET parts == SelectSeq(split(s), LAMBDA x : x # Empty)
  IN IF Len(parts) > 0 THEN parts[Len(parts)] ELSE s

DotMkv == <<".", "m", "k", "v">>
DotHybridMkv == <<".", "h", "y", "b", "r", "i", "d", ".", "m", "k", "v">>

\* s.replace('.mkv', ''): the first occurrence of ".mkv" removed (part_001:622).
stripMkv(s) ==
  IF includes(s, DotMkv)
  THEN LET i == CHOOSE k \in 1..Len(s) :
                  /\ SubSeq(s, k, k + 3) = DotMkv
                  /\ \A j \in 1..(k - 1) : SubSeq(s, j, j + 3) # DotMkv
       IN SubSeq(s, 1, i - 1) \o SubSeq(s, i + 4, Len(s))
  ELSE s

\* The output file name of a new queue entry (part_001:620-622).
outputFileOf(isBatch, hdrLabel) ==
  IF isBatch
  THEN (IF config.outputPath # Empty THEN config.outputPath ELSE toolPaths.defaultOutput)
  ELSE (IF config.outputPath # Empty THEN config.outputPath
        ELSE stripMkv(hdrLabel) \o DotHybridMkv)

\* The QueueFile addToQueue builds (part_001:624-634).
newQueueFile(id) ==
  LET isBatch == derivedMode = "batch"
      hdrLabel == pathLabel(derivedHdrPath)
      outputFile == outputFileOf(isBatch, hdrLabel)
  IN [id |-> id, hdrFile |-> hdrLabel, dvFile |-> pathLabel(config.dvPath),
      outputFile |-> outputFile, hdrPath |-> derivedHdrPath, dvPath |-> config.dvPath,
      outputPath |-> (IF isBatch THEN config.outputPath ELSE outputFile),
      status |-> "pending", progress |-> 0, currentStep |-> None, etaSeconds |-> Absent,
      activeWorkers |-> Absent, fileTotal |-> Absent]

\* A guard that looks at the primary source only: C4 does not survive it.
canAddPrimaryOnly == derivedHdrPath # Empty

\* The guard of addToQueue (part_001:614): both sources are present.
canAddToQueue == derivedHdrPath # Empty /\ config.dvPath # Empty

\* addToQueue (part_001:613-640).
addToQueue ==
  IF canAddToQueue
  THEN /\ ~isProcessing
       /\ Len(queue) < MaxQueue
       /\ Len(logs) < MaxLogs
       /\ uuid < MaxIds
       /\ LET newFile == newQueueFile(uuid + 1)
          IN /\ queue' = Append(queue, newFile)
             /\ selectedQueueIds' = selectedQueueIds \cup {newFile.id}
             /\ config' = [config EXCEPT !.hdrPath = Empty, !.hdr10plusPath = Empty,
                                         !.dvPath = Empty, !.outputPath = Empty]
             /\ logs' = addLog(logs, "info", Msg("Added to queue: ", << >>, newFile.outputFile))
       /\ uuid' = uuid + 1
       /\ UNCHANGED <<pathKinds, toolPaths, dvDelayInput, hdr10plusDelayInput, showDelays,
                      presetVars, restVars, tauri, now, pageVars>>
  ELSE /\ ~isProcessing
       /\ UNCHANGED <<formVars, presetVars, queueVars, logs, restVars, envVars>>

\* onToggle of the queue list (part_001:1098-1108).
onToggle(id) ==
  /\ selectedQueueIds' = (IF id \in selectedQueueIds THEN selectedQueueIds \ {id}
                          ELSE selectedQueueIds \cup {id})
  /\ UNCHANGED <<formVars, presetVars, queue, logs, restVars, envVars>>

\* A toggle that clears whenever something is selected: C15 does not survive it.
onToggleAllAny ==
  /\ selectedQueueIds' = (IF Cardinality(selectedQueueIds) > 0 THEN {}
                          ELSE {queue[k].id : k \in 1..Len(queue)})
  /\ UNCHANGED <<formVars, presetVars, queue, logs, restVars, envVars>>

\* onToggleAll of the queue list (part_001:1109-1116).
onToggleAll ==
  /\ selectedQueueIds' = (IF Cardinality(selectedQueueIds) = Len(queue) THEN {}
                          ELSE {queue[k].id : k \in 1..Len(queue)})
  /\ UNCHANGED <<formVars, presetVars, queue, logs, restVars, envVars>>

\* prev.findIndex(item => item.id === id), counted from 1; 0 for -1.
findIndex(q, id) ==
  IF \E k \in 1..Len(q) : q[k].id = id
  THEN CHOOSE k \in 1..Len(q) : q[k].id = id /\ \A j \in 1..(k - 1) : q[j].id # id
  ELSE 0

\* The items at i and j change places: C13 does not survive it.
swapItems(q, i, j) == [k \in 1..Len(q) |-> IF k = i THEN q[j] ELSE IF k = j THEN q[i] ELSE q[k]]

\* next.splice(sourceIndex, 1) followed by next.splice(targetIndex, 0, moved)
\* (part_001:908-910), indices counted from 1.
spliceMove(q, i, j) ==
  LET without == SubSeq(q, 1, i - 1) \o SubSeq(q, i + 1, Len(q))
  IN SubSeq(without, 1, j - 1) \o <<q[i]>> \o SubSeq(without, j, Len(without))

\* handleReorderQueue (part_001:902-912).
handleReorderQueue(sourceId, targetId) ==
  LET sourceIndex == findIndex(queue, sourceId)
      targetIndex == findIndex(queue, targetId)
  IN /\ queue' = (IF sourceIndex = 0 \/ targetIndex = 0 THEN queue
                  ELSE spliceMove(queue, sourceIndex, targetIndex))
     /\ UNCHANGED <<formVars, presetVars, selectedQueueIds, logs, restVars, envVars>>

\* ---------------------------------------------------------------- presets
\* savePreset (part_001:518-533).  `name` is what the prompt returned.
savePreset(name) ==
  IF name = None \/ name = Empty
  THEN UNCHANGED <<formVars, presetVars, queueVars, logs, restVars, envVars>>
  ELSE /\ Len(presets) < MaxPresets
       /\ uuid < MaxIds
       /\ presets' = Append(presets,
                            [id |-> uuid + 1, name |-> name, config |-> config,
                             toolPaths |-> toolPaths, dvDelayInput |-> dvDelayInput,
                             hdr10plusDelayInput |-> hdr10plusDelayInput,
                             showDelays |-> showDelays])
       /\ selectedPresetId' = uuid + 1
       /\ uuid' = uuid + 1
       /\ storage' = [storage EXCEPT !.presets = stringifyPresets(presets')]
       /\ UNCHANGED <<formVars, queueVars, logs, restVars, tauri, now, mounted, fatal,
                      debounce>>

\* The config applyPreset installs (part_001:505).
presetConfig(preset) == preset.config

\* applyPreset (part_001:502-516), reached through handlePresetChange
\* (part_001:535-542), which first records the selected id.
handlePresetChange(value) ==
  /\ selectedPresetId' = value
  /\ IF \E i \in 1..Len(presets) : presets[i].id = value
     THEN LET preset == presets[CHOOSE i \in 1..Len(presets) :
                                  /\ presets[i].id = value
                                  /\ \A j \in 1..(i - 1) : presets[j].id # value]
          IN /\ config' = presetConfig(preset)
             /\ toolPaths' = preset.toolPaths
             /\ dvDelayInput' = preset.dvDelayInput
             /\ hdr10plusDelayInput' = preset.hdr10plusDelayInput
             /\ showDelays' = preset.showDelays
             /\ pathKinds' = [hdr |-> inferPathKind(preset.config.hdrPath),
                              hdr10plus |-> inferPathKind(preset.config.hdr10plusPath),
                              dv |-> inferPathKind(preset.config.dvPath),
                              output |-> inferPathKind(preset.config.outputPath)]
     ELSE /\ UNCHANGED formVars
  /\ storage' = [storage EXCEPT !.config = stringifyConfig(config'),
                                !.tools = stringifyTools(toolPaths')]
  /\ UNCHANGED <<presets, queueVars, logs, restVars, tauri, uuid, now, mounted, fatal,
                 debounce>>

\* ------------------------------------------------------- host-absent run
\* Names of the six fixed steps are their ids; stepProgress of the batch
\* simulation: Math.round(((step + 1) / 6) * 100) for step = 0..5 (part_001:771).
stepProgress(step) == ((step + 1) * 200 + 6) \div 12

\* setQueue(prev => prev.map(f => f.id === id ? upd(f) : f))
mapItem(q, id, upd(_)) == [k \in 1..Len(q) |-> IF q[k].id = id THEN upd(q[k]) ELSE q[k]]

\* A start of a file that leaves its status alone: C28 does not survive it.
simStartFileQuiet(sim, n, q, l) ==
  LET file == sim.files[n]
      q2 == mapItem(q, file.id,
                    LAMBDA f : [f EXCEPT !.progress = stepProgress(0) - 10, !.currentStep = 1])
  IN [queue |-> q2,
      logs |-> addLog(l, "info", Msg("Processing file", <<n, Len(sim.files)>>, file.outputFile)),
      sim |-> [sim EXCEPT !.q = n, !.step = 0]]

\* The part of a batch simulation that starts file number n of the captured queue
\* and runs to the first await (part_001:763-781).
simStartFile(sim, n, q, l) ==
  LET file == sim.files[n]
      q1 == mapItem(q, file.id, LAMBDA f : [f EXCEPT !.status = "processing", !.progress = 0])
      q2 == mapItem(q1, file.id,
                    LAMBDA f : [f EXCEPT !.progress = stepProgress(0) - 10, !.currentStep = 1])
  IN [queue |-> q2,
      logs |-> addLog(l, "info", Msg("Processing file", <<n, Len(sim.files)>>, file.outputFile)),
      sim |-> [sim EXCEPT !.q = n, !.step = 0]]

\* The part of a single-file simulation that activates step i and runs to the first
\* await (part_001:801-807).
simStartStep(sim, i, l) ==
  LET ns == [sim.newSteps EXCEPT ![i] = [@ EXCEPT !.status = "active", !.progress = 0]]
  IN [steps |-> ns,
      logs |-> addLog(l, "info", Msg("Step", <<i>>, Empty)),
      sim |-> [sim EXCEPT !.step = i, !.p = 0, !.newSteps = ns]]

\* simulateProcessing up to its first await (part_001:755-781, 794-807), called by
\* handleStart when the host is absent.  The closure captures queue, config and
\* derivedMode (`mode`) of the render that created it.  The three revisions have
\* the same simulateProcessing (part_001:1519-1584, 2227-2290).
simulateBeginIn(mode) ==
  LET l0 == addLog(addLog(logs, "info", Msg("Starting Hybrid DV HDR processing...", << >>, Empty)),
                   "info", Msg(IF mode = "single" THEN "Mode: Single File" ELSE "Mode: Batch",
                               << >>, Empty))
      sim0 == [mode |-> mode, files |-> queue, q |-> 0, step |-> 0, p |-> 0,
               newSteps |-> defaultSteps, done |-> FALSE]
  IN IF mode = "batch" /\ Len(queue) > 0
     THEN LET r == simStartFile(sim0, 1, queue, l0)
          IN /\ queue' = r.queue
             /\ logs' = r.logs
             /\ sims' = Append(sims, r.sim)
             /\ steps' = steps
     ELSE LET l1 == addLog(addLog(l0, "info", Msg("HDR Source: ", << >>, config.hdrPath)),
                           "info", Msg("DV Source: ", << >>, config.dvPath))
              r == simStartStep([sim0 EXCEPT !.mode = "single"], 1, l1)
          IN /\ steps' = r.steps
             /\ logs' = r.logs
             /\ sims' = Append(sims, r.sim)
             /\ queue' = queue

\* simulateProcessing as handleStart calls it (part_001:833-836).
simulateBegin == simulateBeginIn(derivedMode)

\* The continuation of a batch simulation after the await of step `sim.step` of
\* file number `sim.q` (part_001:783-793, then 763-781 or 818-819): the step's
\* progress is stored, and the run goes on to the await of the next step, of the
\* next file's first step, or to its end.
simBatchResume(sim, q, l) ==
  LET file == sim.files[sim.q]
      q1 == mapItem(q, file.id, LAMBDA f : [f EXCEPT !.progress = stepProgress(sim.step)])
  IN IF sim.step + 1 < Len(defaultSteps)
     THEN [queue |-> mapItem(q1, file.id,
                             LAMBDA f : [f EXCEPT !.progress = stepProgress(sim.step + 1) - 10,
                                                  !.currentStep = sim.step + 2]),
           logs |-> l, sim |-> [sim EXCEPT !.step = sim.step + 1], ended |-> FALSE]
     ELSE LET q2 == mapItem(q1, file.id,
                            LAMBDA f : [f EXCEPT !.status = "completed", !.progress = 100])
              l2 == addLog(l, "success", Msg("Completed: ", << >>, file.outputFile))
          IN IF sim.q < Len(sim.files)
             THEN simStartFile(sim, sim.q + 1, q2, l2) @@ [ended |-> FALSE]
             ELSE [queue |-> q2,
                   logs |-> addLog(l2, "success",
                                   Msg("Processing completed successfully!", << >>, Empty)),
                   sim |-> [sim EXCEPT !.done = TRUE], ended |-> TRUE]

\* The continuation of a single-file simulation after the await at progress
\* `sim.p` of step `sim.step` (part_001:808-815, then 801-807 or 818-819).
simSingleResume(sim, l) ==
  LET i == sim.step
      ns == [sim.newSteps EXCEPT ![i] = [@ EXCEPT !.progress = sim.p]]
  IN IF sim.p + 10 <= 100
     THEN [steps |-> ns, logs |-> l, sim |-> [sim EXCEPT !.p = sim.p + 10, !.newSteps = ns],
           ended |-> FALSE]
     ELSE LET ns2 == [ns EXCEPT ![i] = [@ EXCEPT !.status = "completed", !.progress = 100]]
              l2 == addLog(l, "success", Msg("completed", <<i>>, Empty))
          IN IF i < Len(ns2)
             THEN simStartStep([sim EXCEPT !.newSteps = ns2], i + 1, l2) @@ [ended |-> FALSE]
             ELSE [steps |-> ns2,
                   logs |-> addLog(l2, "success",
                                   Msg("Processing completed successfully!", << >>, Empty)),
                   sim |-> [sim EXCEPT !.newSteps = ns2, !.done = TRUE], ended |-> TRUE]

\* The timeout a running simulateProcessing call awaits fires and the call runs to
\* its next await or to its end (part_001:781-819).  Nothing in the call looks at
\* the status or at whether Stop or Clear was pressed.
SimStep(k) ==
  /\ k \in 1..Len(sims)
  /\ ~sims[k].done
  /\ IF sims[k].mode = "batch"
     THEN LET r == simBatchResume(sims[k], queue, logs)
          IN /\ queue' = r.queue
             /\ logs' = r.logs
             /\ sims' = [sims EXCEPT ![k] = r.sim]
             /\ status' = (IF r.ended THEN "completed" ELSE status)
             /\ steps' = steps
     ELSE LET r == simSingleResume(sims[k], logs)
          IN /\ steps' = r.steps
             /\ logs' = r.logs
             /\ sims' = [sims EXCEPT ![k] = r.sim]
             /\ status' = (IF r.ended THEN "completed" ELSE status)
             /\ queue' = queue
  /\ UNCHANGED <<formVars, presetVars, selectedQueueIds, fileProgress, metaVars, hostVars,
                 notifyVars, listenVars, envVars>>

\* ------------------------------------------------------------ submission
Digits == <<"0", "1", "2", "3", "4", "5", "6", "7", "8", "9">>

isDigit(c) == \E d \in 1..10 : Digits[d] = c

digitValue(c) == (CHOOSE d \in 1..10 : Digits[d] = c) - 1

RECURSIVE digitsValue(_, _, _)
\* The value of the longest run of digits of s that starts at position i.
digitsValue(s, i, acc) ==
  IF i > Len(s) \/ ~isDigit(s[i]) THEN acc
  ELSE digitsValue(s, i + 1, acc * 10 + digitValue(s[i]))

RECURSIVE trimLeft(_)
trimLeft(s) == IF Len(s) > 0 /\ s[1] = " " THEN trimLeft(Tail(s)) ELSE s

RECURSIVE trimRight(_)
trimRight(s) ==
  IF Len(s) > 0 /\ s[Len(s)] = " " THEN trimRight(SubSeq(s, 1, Len(s) - 1)) ELSE s

\* parseDelay (part_001:847-852) on texts made of spaces, a sign, digits and other
\* characters (no decimal point or exponent): Number.parseFloat reads the longest
\* numeric prefix, and a text without one gives NaN, hence 0.
parseDelay(value) ==
  LET trimmed == trimRight(trimLeft(value))
      signed == Len(trimmed) > 0 /\ trimmed[1] \in {"+", "-"}
      body == IF signed THEN Tail(trimmed) ELSE trimmed
  IN IF trimmed = Empty \/ trimmed = <<"+">> \/ trimmed = <<"-">> THEN 0
     ELSE IF Len(body) = 0 \/ ~isDigit(body[1]) THEN 0
     ELSE IF signed /\ trimmed[1] = "-" THEN 0 - digitsValue(body, 1, 0)
     ELSE digitsValue(body, 1, 0)

\* The queue handleStart sends (part_001:843-845).
queueToProcess ==
  IF derivedMode = "batch"
  THEN (IF Cardinality(selectedQueueIds) > 0
        THEN SelectSeq(queue, LAMBDA item : item.id \in selectedQueueIds)
        ELSE queue)
  ELSE << >>

\* The ProcessingRequest handleStart builds (part_001:854-866).
startRequest ==
  [mode |-> derivedMode, hdrPath |-> derivedHdrPath, dvPath |-> config.dvPath,
   outputPath |-> config.outputPath, hdr10plusPath |-> config.hdr10plusPath,
   dvDelayMs |-> parseDelay(dvDelayInput),
   hdr10plusDelayMs |-> parseDelay(hdr10plusDelayInput),
   keepTempFiles |-> config.keepTempFiles, parallelTasks |-> config.parallelTasks,
   toolPaths |-> toolPaths, queue |-> queueToProcess]

\* The validation of handleStart (part_001:823-830): the error line it logs, or
\* None when the request is accepted.
startError ==
  IF derivedMode = "single" /\ (derivedHdrPath = Empty \/ config.dvPath = Empty)
  THEN "Please specify HDR/HDR10+ and DV source paths"
  ELSE IF derivedMode = "batch" /\ Len(queue) = 0
  THEN "Please add files to the queue first"
  ELSE "ok"

\* The `disabled` attribute of the Start button (part_001:1143-1147).
startDisabled ==
  IF derivedMode = "single" THEN derivedHdrPath = Empty \/ config.dvPath = Empty
  ELSE Len(queue) = 0 \/ Cardinality(selectedQueueIds) = 0

\* handleStart (part_001:822-875) up to its await of the start_processing command.
handleStart ==
  IF startError # "ok"
  THEN /\ ~isProcessing
       /\ Len(logs) < MaxLogs
       /\ logs' = addLog(logs, "error", Msg(startError, << >>, Empty))
       /\ UNCHANGED <<formVars, presetVars, queueVars, runVars, metaVars, hostVars, sims,
                      notifyVars, listenVars, envVars>>
  ELSE IF ~tauri
  THEN /\ ~isProcessing
       /\ Len(sims) < MaxSims
       /\ status' = "processing"
       /\ simulateBegin
       /\ UNCHANGED <<formVars, presetVars, selectedQueueIds, fileProgress, metaVars,
                      hostVars, notifyVars, listenVars, envVars>>
  ELSE /\ ~isProcessing
       /\ Len(inFlight) < MaxPending
       /\ steps' = defaultSteps
       /\ status' = "processing"
       /\ fileProgress' = << >>
       /\ fileMetaRef' = << >>
       /\ inFlight' = Append(inFlight, startRequest)
       /\ UNCHANGED <<formVars, presetVars, queueVars, logs, queueMetaRef, pendingCancel,
                      sims, notifyVars, listenVars, envVars>>

\* The validation of handleStart in the two earlier revisions (part_001:1587-1598,
\* 2293-2304).
startErrorPathOnly ==
  IF derivedModePathOnly = "single" /\ (config.hdrPath = Empty \/ config.dvPath = Empty)
  THEN "Please specify both HDR and DV source paths"
  ELSE IF derivedModePathOnly = "batch" /\ Len(queue) = 0
  THEN "Please add files to the queue first"
  ELSE IF derivedModePathOnly = "batch" /\ Cardinality(selectedQueueIds) = 0
  THEN "Please select at least one queue item"
  ELSE "ok"

\* The ProcessingRequest handleStart builds in the two earlier revisions
\* (part_001:1611-1624, 2317-2330).
startRequestPathOnly ==
  [mode |-> derivedModePathOnly, hdrPath |-> config.hdrPath, dvPath |-> config.dvPath,
   outputPath |-> config.outputPath, keepTempFiles |-> config.keepTempFiles,
   parallelTasks |-> config.parallelTasks, toolPaths |-> toolPaths,
   queue |-> (IF derivedModePathOnly = "batch"
              THEN SelectSeq(queue, LAMBDA item : item.id \in selectedQueueIds)
              ELSE << >>)]

\* handleStart of the two earlier revisions (part_001:1586-1633, 2292-2339) up to
\* its await of the start_processing command.
handleStartPathOnly ==
  IF startErrorPathOnly # "ok"
  THEN /\ ~isProcessing
       /\ Len(logs) < MaxLogs
       /\ logs' = addLog(logs, "error", Msg(startErrorPathOnly, << >>, Empty))
       /\ UNCHANGED <<formVars, presetVars, queueVars, runVars, metaVars, hostVars, sims,
                      notifyVars, listenVars, envVars>>
  ELSE IF ~tauri
  THEN /\ ~isProcessing
       /\ Len(sims) < MaxSims
       /\ status' = "processing"
       /\ simulateBeginIn(derivedModePathOnly)
       /\ UNCHANGED <<formVars, presetVars, selectedQueueIds, fileProgress, metaVars,
                      hostVars, notifyVars, listenVars, envVars>>
  ELSE /\ ~isProcessing
       /\ Len(inFlight) < MaxPending
       /\ steps' = defaultSteps
       /\ status' = "processing"
       /\ fileProgress' = << >>
       /\ fileMetaRef' = << >>
       /\ inFlight' = Append(inFlight, startRequestPathOnly)
       /\ UNCHANGED <<formVars, presetVars, queueVars, logs, queueMetaRef, pendingCancel,
                      sims, notifyVars, listenVars, envVars>>

\* The start_processing command resolves (part_001:869).
StartResolved ==
  /\ Len(inFlight) > 0
  /\ inFlight' = Tail(inFlight)
  /\ UNCHANGED <<formVars, presetVars, queueVars, runVars, logs, metaVars, pendingCancel,
                 sims, notifyVars, listenVars, envVars>>

\* `error instanceof Error ? error.message : String(error)` (part_001:871), for a
\* rejection that is an Error or a string.
rejectionMessage(error) == IF error.kind = "Error" THEN error.message ELSE error.text

\* A catch block that logs the message and leaves the status alone: C17 does not
\* survive it.
StartRejectedLogOnly(message) ==
  /\ Len(inFlight) > 0
  /\ Len(logs) < MaxLogs
  /\ inFlight' = Tail(inFlight)
  /\ logs' = addLog(logs, "error", Msg(message, << >>, Empty))
  /\ UNCHANGED <<formVars, presetVars, queueVars, runVars, metaVars,
                 pendingCancel, sims, notifyVars, listenVars, envVars>>

\* The start_processing command rejects and the catch block of handleStart runs
\* with the message of the rejection (part_001:870-874).
StartRejected(message) ==
  /\ Len(inFlight) > 0
  /\ Len(logs) < MaxLogs
  /\ inFlight' = Tail(inFlight)
  /\ logs' = addLog(logs, "error", Msg(message, << >>, Empty))
  /\ status' = "error"
  /\ UNCHANGED <<formVars, presetVars, queueVars, steps, fileProgress, metaVars,
                 pendingCancel, sims, notifyVars, listenVars, envVars>>

\* A Stop that resets the display with the host present as well: C19 does not
\* survive it.
handleStopResetsAlways ==
  /\ isProcessing
  /\ pendingCancel < MaxPending
  /\ pendingCancel' = (IF tauri THEN pendingCancel + 1 ELSE pendingCancel)
  /\ status' = "idle"
  /\ steps' = defaultSteps
  /\ queue' = [k \in 1..Len(queue) |->
                 [queue[k] EXCEPT !.status = "pending", !.progress = 0]]
  /\ logs' = addLog(logs, "warning", Msg("Processing cancelled by user", << >>, Empty))
  /\ fileProgress' = << >>
  /\ fileMetaRef' = << >>
  /\ UNCHANGED <<formVars, presetVars, selectedQueueIds, queueMetaRef, inFlight, sims,
                 notifyVars, listenVars, envVars>>

\* handleStop (part_001:877-889).
handleStop ==
  IF tauri
  THEN /\ isProcessing
       /\ pendingCancel < MaxPending
       /\ pendingCancel' = pendingCancel + 1
       /\ UNCHANGED <<formVars, presetVars, queueVars, runVars, logs, metaVars, inFlight,
                      sims, notifyVars, listenVars, envVars>>
  ELSE /\ isProcessing
       /\ status' = "idle"
       /\ steps' = defaultSteps
       /\ queue' = [k \in 1..Len(queue) |->
                      [queue[k] EXCEPT !.status = "pending", !.progress = 0]]
       /\ logs' = addLog(logs, "warning", Msg("Processing cancelled by user", << >>, Empty))
       /\ fileProgress' = << >>
       /\ fileMetaRef' = << >>
       /\ UNCHANGED <<formVars, presetVars, selectedQueueIds, queueMetaRef, hostVars, sims,
                      notifyVars, listenVars, envVars>>

\* The cancel_processing command settles (part_001:879).
CancelSettled ==
  /\ pendingCancel > 0
  /\ pendingCancel' = pendingCancel - 1
  /\ UNCHANGED <<formVars, presetVars, queueVars, runVars, logs, metaVars, inFlight,
                 sims, notifyVars, listenVars, envVars>>

\* A Clear that forgets the two window stores: C14 does not survive it.
handleClearKeepMeta ==
  /\ ~isProcessing
  /\ logs' = << >>
  /\ steps' = defaultSteps
  /\ status' = "idle"
  /\ queue' = << >>
  /\ fileProgress' = << >>
  /\ selectedQueueIds' = {}
  /\ UNCHANGED <<formVars, presetVars, metaVars, hostVars, sims, notifyVars, listenVars,
                 envVars>>

\* The cancel_processing command rejects.  handleStop awaits it outside any try
\* block (part_001:878-881) and the click handler drops the promise handleStop
\* returns, so the rejection is unhandled: the unhandledrejection listener calls
\* showFatal, which replaces the page content (part_002:721-728, 739-743).
CancelRejected ==
  /\ pendingCancel > 0
  /\ pendingCancel' = pendingCancel - 1
  /\ fatal' = TRUE
  /\ UNCHANGED <<formVars, presetVars, queueVars, runVars, logs, metaVars, inFlight,
                 sims, notifyVars, listenVars, tauri, uuid, now, storage, mounted,
                 debounce>>

\* A Clear that leaves the selection: C30 does not survive it.
handleClearKeepSelection ==
  /\ ~isProcessing
  /\ logs' = << >>
  /\ steps' = defaultSteps
  /\ status' = "idle"
  /\ queue' = << >>
  /\ fileProgress' = << >>
  /\ queueMetaRef' = << >>
  /\ fileMetaRef' = << >>
  /\ UNCHANGED <<formVars, presetVars, selectedQueueIds, hostVars, sims, notifyVars,
                 listenVars, envVars>>

\* handleClear (part_001:891-900).
handleClear ==
  /\ ~isProcessing
  /\ logs' = << >>
  /\ steps' = defaultSteps
  /\ status' = "idle"
  /\ queue' = << >>
  /\ fileProgress' = << >>
  /\ queueMetaRef' = << >>
  /\ fileMetaRef' = << >>
  /\ selectedQueueIds' = {}
  /\ UNCHANGED <<formVars, presetVars, hostVars, sims, notifyVars, listenVars, envVars>>

\* --------------------------------------------------------------- the ETA
\* etaAveragingWindow (part_001:330).
etaAveragingWindow == 6

RECURSIVE gcd(_, _)
gcd(a, b) == IF b = 0 THEN a ELSE gcd(b, a % b)

RECURSIVE lcmOf(_, _)
\* The least common multiple of f[i] for i in the finite set I.
lcmOf(f, I) ==
  IF I = {} THEN 1
  ELSE LET i == CHOOSE k \in I : TRUE
           rest == lcmOf(f, I \ {i})
       IN (rest * f[i]) \div gcd(rest, f[i])

RECURSIVE sumOf(_, _)
\* The sum of f[i] for i in the finite set I.
sumOf(f, I) ==
  IF I = {} THEN 0
  ELSE LET i == CHOOSE k \in I : TRUE IN f[i] + sumOf(f, I \ {i})

\* The quotient cut to a whole number, as Math.floor would: C8 does not survive it.
floorDiv(n, d) == n \div d

\* Math.round of the non-negative quotient n / d (d > 0): halves round up.
roundDiv(n, d) == (2 * n + d) \div (2 * d)

\* The samples with the new one appended and nothing sliced off: C12 does not
\* survive it.
allSamples(samples, t, progress) == Append(samples, [time |-> t, progress |-> progress])

\* [...samples, { time: now, progress }].slice(-etaAveragingWindow) (part_001:361).
nextSamples(samples, t, progress) ==
  LET all == Append(samples, [time |-> t, progress |-> progress])
  IN IF Len(all) > etaAveragingWindow
     THEN SubSeq(all, Len(all) - etaAveragingWindow + 1, Len(all))
     ELSE all

\* The consecutive pairs of a window, each named by the index of its earlier sample.
pairsOf(w) == 1..(Len(w) - 1)

\* The pairs that pass `.filter(rate => rate > 0)` (part_001:366-370): the rate
\* is dp / dt when dt > 0 and 0 otherwise, dt in seconds.
ratedPairs(w) ==
  {i \in pairsOf(w) : w[i + 1].time - w[i].time > 0 /\ w[i + 1].progress - w[i].progress > 0}

\* Math.round(remaining / avgRate) (part_001:375-378) over the window w whose
\* pairs `pos` have a positive rate, in exact arithmetic.  With dt_i in
\* milliseconds and L a common multiple of them, the sum of the rates
\* dp_i / (dt_i / 1000) is 1000 * (sum of dp_i * (L / dt_i)) / L.
etaOf(w, pos, progress) ==
  LET dt == [i \in pos |-> w[i + 1].time - w[i].time]
      dp == [i \in pos |-> w[i + 1].progress - w[i].progress]
      L == lcmOf(dt, pos)
      S == sumOf([i \in pos |-> dp[i] * (L \div dt[i])], pos)
      remaining == IF 100 - progress > 0 THEN 100 - progress ELSE 0
  IN roundDiv(remaining * Cardinality(pos) * L, 1000 * S)

\* computeSmoothedEta without its first line `if (progress <= 0) return undefined`:
\* a sample of progress 0 joins the window and an ETA comes out of the older pairs.
smoothedEtaUnguarded(meta, progress, t) ==
  LET w == nextSamples(meta.samples, t, progress)
      pos == ratedPairs(w)
  IN IF pos = {} THEN [eta |-> Absent, samples |-> w]
     ELSE [eta |-> Some(etaOf(w, pos, progress)), samples |-> w]

\* computeSmoothedEta (part_001:354-381) called at time t (Date.now()): the ETA it
\* returns, absent for undefined, and meta.samples after the call.
computeSmoothedEta(meta, progress, t) ==
  IF progress <= 0 THEN [eta |-> Absent, samples |-> meta.samples]
  ELSE LET w == nextSamples(meta.samples, t, progress)
           pos == ratedPairs(w)
       IN IF pos = {} THEN [eta |-> Absent, samples |-> w]
          ELSE [eta |-> Some(etaOf(w, pos, progress)), samples |-> w]

\* queueMetaRef.current.get(id) || { start: Date.now(), lastProgress: 0, samples: [] }
\* (part_001:413, 457).
metaOf(m, id, t) ==
  IF id \in DOMAIN m THEN m[id] ELSE [start |-> t, lastProgress |-> 0, samples |-> << >>]

\* Map.prototype.set.
setMeta(m, id, meta) == [k \in DOMAIN m \cup {id} |-> IF k = id THEN meta ELSE m[k]]

\* A delete that leaves the map as it is: C11 does not survive it.
keepMeta(m, id) == m

\* Map.prototype.delete.
deleteMeta(m, id) == [k \in DOMAIN m \ {id} |-> m[k]]

\* ------------------------------------------------------------ listeners
\* The events setupListeners subscribes to, in the order of its awaits
\* (part_001:393, 397, 406, 439, 452).
ListenerNames == <<"log", "step", "queue", "status", "file">>

\* One `await listenTauri(...)` of setupListeners resolves (part_001:392-480,
\* part_000:8-11): the host holds the subscription, the unlisten variable is
\* assigned and the next registration is requested.  Nothing in setupListeners
\* looks at whether the cleanup has run.
Register ==
  /\ tauri
  /\ setupPc < Len(ListenerNames)
  /\ active' = active \cup {ListenerNames[setupPc + 1]}
  /\ unlisten' = unlisten \cup {ListenerNames[setupPc + 1]}
  /\ setupPc' = setupPc + 1
  /\ UNCHANGED <<formVars, presetVars, queueVars, runVars, logs, metaVars, hostVars, sims,
                 notifyVars, tornDown, envVars>>

\* The cleanup of the effect (part_001:484-490), run when the view is torn down:
\* it ends the subscriptions whose unlisten variable is assigned.
\* Without the host the effect returned no cleanup (part_001:384).
Cleanup ==
  /\ tauri
  /\ ~tornDown
  /\ tornDown' = TRUE
  /\ active' = active \ unlisten
  /\ UNCHANGED <<formVars, presetVars, queueVars, runVars, logs, metaVars, hostVars, sims,
                 notifyVars, unlisten, setupPc, envVars>>

\* The processing:log listener (part_001:393-395).
onLog(logType, message) ==
  /\ "log" \in active
  /\ Len(logs) < MaxLogs
  /\ logs' = addLog(logs, logType, Msg(message, << >>, Empty))
  /\ UNCHANGED <<formVars, presetVars, queueVars, runVars, metaVars, hostVars, sims,
                 notifyVars, listenVars, envVars>>

\* The processing:step listener (part_001:397-404).
onStep(stepId, stepStatus, progress) ==
  /\ "step" \in active
  /\ steps' = [i \in 1..Len(steps) |->
                 IF steps[i].id = stepId
                 THEN [steps[i] EXCEPT !.status = stepStatus, !.progress = progress]
                 ELSE steps[i]]
  /\ UNCHANGED <<formVars, presetVars, queueVars, status, fileProgress, logs, metaVars,
                 hostVars, sims, notifyVars, listenVars, envVars>>

\* The ETA a progress listener stores (part_001:411-417, 456-461): the smoothed one
\* when computeSmoothedEta returned a number, else the one the entry had.
keptEta(previous, smoothed) == IF smoothed # Absent THEN smoothed ELSE previous

\* A listener that copies the worker count and the file total from the payload
\* even when they are absent: C27 does not survive it.
onQueueOverwrite(id, itemStatus, progress, currentStep, activeWorkers, fileTotal) ==
  /\ "queue" \in active
  /\ IF \E k \in 1..Len(queue) : queue[k].id = id
     THEN LET meta == metaOf(queueMetaRef, id, now)
              r == computeSmoothedEta(meta, progress, now)
          IN /\ queue' = mapItem(queue, id, LAMBDA item :
                   [item EXCEPT
                      !.status = itemStatus,
                      !.progress = progress,
                      !.currentStep = IF currentStep = Empty THEN None ELSE currentStep,
                      !.etaSeconds = IF itemStatus = "processing" THEN keptEta(@, r.eta)
                                     ELSE IF itemStatus = "completed" THEN Some(0)
                                     ELSE @,
                      !.activeWorkers = activeWorkers,
                      !.fileTotal = fileTotal])
             /\ queueMetaRef' =
                  (IF itemStatus = "processing"
                   THEN setMeta(queueMetaRef, id,
                                [meta EXCEPT !.samples = r.samples, !.lastProgress = progress])
                   ELSE IF itemStatus \in {"completed", "error", "pending"}
                   THEN deleteMeta(queueMetaRef, id)
                   ELSE queueMetaRef)
     ELSE UNCHANGED <<queue, queueMetaRef>>
  /\ UNCHANGED <<formVars, presetVars, selectedQueueIds, runVars, logs, fileMetaRef,
                 hostVars, sims, notifyVars, listenVars, envVars>>

\* The processing:queue listener (part_001:406-437).  An absent currentStep,
\* activeWorkers or fileTotal of the payload is None or Absent.
onQueue(id, itemStatus, progress, currentStep, activeWorkers, fileTotal) ==
  /\ "queue" \in active
  /\ IF \E k \in 1..Len(queue) : queue[k].id = id
     THEN LET meta == metaOf(queueMetaRef, id, now)
              r == computeSmoothedEta(meta, progress, now)
          IN /\ queue' = mapItem(queue, id, LAMBDA item :
                   [item EXCEPT
                      !.status = itemStatus,
                      !.progress = progress,
                      !.currentStep = IF currentStep = Empty THEN None ELSE currentStep,
                      !.etaSeconds = IF itemStatus = "processing" THEN keptEta(@, r.eta)
                                     ELSE IF itemStatus = "completed" THEN Some(0)
                                     ELSE @,
                      !.activeWorkers = IF activeWorkers = Absent THEN @ ELSE activeWorkers,
                      !.fileTotal = IF fileTotal = Absent THEN @ ELSE fileTotal])
             /\ queueMetaRef' =
                  (IF itemStatus = "processing"
                   THEN setMeta(queueMetaRef, id,
                                [meta EXCEPT !.samples = r.samples, !.lastProgress = progress])
                   ELSE IF itemStatus \in {"completed", "error", "pending"}
                   THEN deleteMeta(queueMetaRef, id)
                   ELSE queueMetaRef)
     ELSE UNCHANGED <<queue, queueMetaRef>>
  /\ UNCHANGED <<formVars, presetVars, selectedQueueIds, runVars, logs, fileMetaRef,
                 hostVars, sims, notifyVars, listenVars, envVars>>

\* The processing:file listener (part_001:452-479).
onFile(id, queueId, name, progress) ==
  LET existing == {k \in 1..Len(fileProgress) : fileProgress[k].id = id}
      meta == metaOf(fileMetaRef, id, now)
      r == computeSmoothedEta(meta, progress, now)
      previous == IF existing # {}
                  THEN fileProgress[CHOOSE k \in existing : \A j \in existing : k <= j].etaSeconds
                  ELSE Absent
      nextEntry == [id |-> id, queueId |-> queueId, name |-> name, progress |-> progress,
                    etaSeconds |-> keptEta(previous, r.eta)]
  IN /\ "file" \in active
     /\ fileMetaRef' = setMeta(fileMetaRef, id,
                               [meta EXCEPT !.samples = r.samples, !.lastProgress = progress])
     /\ fileProgress' = (IF existing # {}
                         THEN [k \in 1..Len(fileProgress) |->
                                 IF fileProgress[k].id = id THEN nextEntry ELSE fileProgress[k]]
                         ELSE Append(fileProgress, nextEntry))
     /\ UNCHANGED <<formVars, presetVars, queueVars, status, steps, logs, queueMetaRef,
                    hostVars, sims, notifyVars, listenVars, envVars>>

\* Time passes: Date.now() grows by dt milliseconds.
Tick(dt) ==
  /\ now + dt <= MaxNow
  /\ now' = now + dt
  /\ UNCHANGED <<formVars, presetVars, queueVars, runVars, logs, metaVars, hostVars, sims,
                 notifyVars, listenVars, tauri, uuid, pageVars>>

\* ---------------------------------------------------------- notifications
\* notify (part_001:338-352): without the host it returns at once; with it the
\* call reaches the permission check.  The permission dialog and sendNotification
\* belong to the platform.
notify(n) == IF tauri THEN n + 1 ELSE n

\* A listener that notifies on every completed or error event, whatever the
\* status seen before: C5 does not survive it.
statusNotifyEvery(nextStatus, n) ==
  IF nextStatus \in {"completed", "error"} THEN notify(n) ELSE n

\* The notification the processing:status listener requests on a change of
\* statusRef (part_001:442-449).
statusNotify(nextStatus, n) ==
  IF statusRef # nextStatus /\ nextStatus \in {"completed", "error"} THEN notify(n) ELSE n

\* The processing:status listener (part_001:439-450).
onStatus(nextStatus) ==
  /\ "status" \in active
  /\ status' = nextStatus
  /\ statusRef' = nextStatus
  /\ notifyCalls' = statusNotify(nextStatus, notifyCalls)
  /\ notifyCalls' <= MaxNotify
  /\ lastEvent' = nextStatus
  /\ prevEvent' = lastEvent
  /\ UNCHANGED <<formVars, presetVars, queueVars, steps, fileProgress, logs, metaVars,
                 hostVars, sims, listenVars, envVars>>

\* ============================================================ SpecForm
\* The path fields, the queue's Add and the presets.
FormNext ==
  \/ \E t \in Targets, v \in TypedInputs : TextEntry(t, v) /\ Did("form", 0)
  \/ \E t \in Targets, v \in PathInputs : browseFile(t, v) /\ Did("form", 0)
  \/ \E t \in Targets, v \in PathInputs : browseFolder(t, v) /\ Did("form", 0)
  \/ \E p \in PathInputs, f \in BOOLEAN, n \in DropNames :
       handleDropAssign(p, f, n) /\ Did("form", 0)
  \/ addToQueue /\ Did("form", 0)
  \/ savePreset(<<"p">>) /\ Did("form", 0)
  \/ \E i \in 1..Len(presets) : handlePresetChange(presets[i].id) /\ Did("form", 0)

SpecForm == Init /\ [][FormNext]_vars

\* C1: at most one of config.hdrPath and config.hdr10plusPath is non-empty in
\* every state reached by text entry, browse, drop, add-to-queue, preset save and
\* preset apply.
C1_OnePrimarySource == config.hdrPath = Empty \/ config.hdr10plusPath = Empty

\* C1 witness: the HDR10+ path is set in a state where a stored preset holds an HDR
\* path and an item was queued, so selecting one source has cleared the other.
C1_Witness ==
  /\ config.hdr10plusPath # Empty
  /\ \E i \in 1..Len(presets) : presets[i].config.hdrPath # Empty
  /\ Len(queue) > 0

\* ================================================================ Spec
\* Filling the form, queueing, selecting and starting a run.
StartTargets == {"hdr", "hdr10plus", "dv"}

Next ==
  \/ \E t \in StartTargets, v \in TypedInputs : TextEntry(t, v) /\ Did("other", 0)
  \/ \E t \in StartTargets, v \in PathInputs : browseFolder(t, v) /\ Did("other", 0)
  \/ addToQueue /\ Did("addToQueue", 0)
  \/ \E k \in 1..Len(queue) : onToggle(queue[k].id) /\ Did("other", 0)
  \/ handleStart /\ Did("handleStart", 0)
  \/ StartResolved /\ Did("other", 0)
  \/ StartRejected("failed") /\ Did("other", 0)
  \/ handleStop /\ Did("other", 0)
  \/ CancelSettled /\ Did("other", 0)
  \/ handleClear /\ Did("other", 0)

Spec == Init /\ [][Next]_vars

\* The validation C2 states: single mode needs the primary source and the DV
\* source, batch mode a non-empty queue with a selected item.
C2_Invalid ==
  IF derivedMode = "single"
  THEN derivedHdrPath = Empty \/ config.dvPath = Empty
  ELSE Len(queue) = 0 \/ \A k \in 1..Len(queue) : queue[k].id \notin selectedQueueIds

C4_AddNeedsBothSources ==
  [][lastOp'.op = "addToQueue" =>
       IF derivedHdrPath # Empty /\ config.dvPath # Empty
       THEN /\ Len(queue') = Len(queue) + 1
            /\ SubSeq(queue', 1, Len(queue)) = queue
            /\ queue'[Len(queue')].hdrPath = derivedHdrPath
            /\ queue'[Len(queue')].dvPath = config.dvPath
       ELSE UNCHANGED <<queue, selectedQueueIds, config, pathKinds, logs>>]_vars

\* C4 witness: addToQueue was called with a primary source and no DV source, and
\* the queue is still empty.
C4_Witness ==
  /\ lastOp.op = "addToQueue"
  /\ derivedHdrPath # Empty
  /\ config.dvPath = Empty
  /\ queue = << >>
  /\ logs = << >>

\* ========================================================== SpecNotify
\* Runs with the host: starting, the command settling, status events, Clear.
EventStatuses == {"processing", "completed", "error"}

NotifyNext ==
  \/ \E t \in {"hdr", "dv"} : TextEntry(t, FileA) /\ Did("other", 0)
  \/ Register /\ Did("other", 0)
  \/ handleStart /\ Did("handleStart", 0)
  \/ StartResolved /\ Did("other", 0)
  \/ StartRejected("failed") /\ Did("other", 0)
  \/ handleClear /\ Did("other", 0)
  \/ \E s \in EventStatuses : onStatus(s) /\ Did("status", 0)

SpecNotify == Init /\ [][NotifyNext]_vars

\* C5: a processing:status event requests at most one notification, requests one
\* only when it carries completed or error, and requests none when it carries the
\* same status as the event before it; nothing but a status event requests one.
C5_NotifyOncePerTransition ==
  [][/\ lastOp'.op # "status" => notifyCalls' = notifyCalls
     /\ lastOp'.op = "status" =>
          /\ notifyCalls' \in {notifyCalls, notifyCalls + 1}
          /\ notifyCalls' # notifyCalls => lastEvent' \in {"completed", "error"}
          /\ lastEvent' = lastEvent => notifyCalls' = notifyCalls]_vars

\* C5 witness: two consecutive completed events have arrived and one notification
\* was requested.
C5_Witness ==
  /\ lastOp.op = "status"
  /\ lastEvent = "completed"
  /\ prevEvent = "completed"
  /\ notifyCalls = 1

\* C6: with the host present, every change of the displayed status from another
\* value into completed or error requests one notification.
C6_EveryTransitionNotifies ==
  [][(tauri /\ status' # status /\ status' \in {"completed", "error"}) =>
       notifyCalls' = notifyCalls + 1]_vars

\* ========================================================== SpecListen
\* The life of the effect: registrations, events delivered to the active
\* subscriptions, teardown.
StepInputs == {1, 2}

ListenNext ==
  \/ Register /\ Did("other", 0)
  \/ Cleanup /\ Did("other", 0)
  \/ \E t \in {"info", "error"} : onLog(t, "line") /\ Did("other", 0)
  \/ \E i \in StepInputs, st \in {"active", "completed"} :
       onStep(i, st, IF st = "completed" THEN 100 ELSE 0) /\ Did("other", 0)
  \/ \E s \in EventStatuses : onStatus(s) /\ Did("status", 0)

SpecListen == Init /\ [][ListenNext]_vars

\* C7: once the cleanup has run and setupListeners has finished, no subscription
\* is active in the host.
C7_NoSubscriptionAfterTeardown ==
  (tornDown /\ setupPc = Len(ListenerNames)) => active = {}

\* ============================================================= SpecEta
\* computeSmoothedEta applied by the processing:file listener to one file, at
\* times that are multiples of the tick.
TickMs == 10000
EtaProgressInputs == {0, 20, 40, 50}
FileIds == {1}

EtaNext ==
  \/ Register /\ Did("other", 0)
  \/ Tick(TickMs) /\ Did("other", 0)
  \/ \E f \in FileIds, p \in EtaProgressInputs : onFile(f, 1, <<"f">>, p) /\ Did("file", f)

SpecEta == Init /\ [][EtaNext]_vars

\* The sample windows computeSmoothedEta can be given in the current state: the
\* stored one of each file, and the empty one of a file not seen yet.
C8_Metas == {metaOf(fileMetaRef, f, now) : f \in FileIds \cup {0}}

\* e is the quotient of (100 - progress) by the mean of the positive per-pair
\* rates of window w, rounded to a nearest whole number.  With R the sum of the
\* rates times L (a common multiple of the pairs' milliseconds) and k the number
\* of positive pairs, the quotient is (100 - progress) * k * L / R.
C8_Nearest(e, w, progress) ==
  LET pos == {i \in 1..(Len(w) - 1) :
                /\ w[i + 1].time > w[i].time
                /\ w[i + 1].progress > w[i].progress}
      dt == [i \in pos |-> w[i + 1].time - w[i].time]
      L == lcmOf(dt, pos)
      R == sumOf([i \in pos |-> (w[i + 1].progress - w[i].progress) * 1000 * (L \div dt[i])],
                 pos)
      N == (100 - progress) * Cardinality(pos) * L
  IN /\ 2 * (e * R - N) <= R
     /\ 2 * (N - e * R) <= R

\* C8: whenever the window that ends with the new sample has a pair with a
\* positive rate, computeSmoothedEta returns (100 - progress) divided by the mean
\* of the positive rates, rounded to the nearest second; samples 0, 20, 40 taken
\* 10 seconds apart give 30 after the third.
C8_EtaIsRoundedMeanRate ==
  /\ \A meta \in C8_Metas, p \in EtaProgressInputs \ {0} :
       LET r == computeSmoothedEta(meta, p, now)
           w == nextSamples(meta.samples, now, p)
       IN (\E i \in 1..(Len(w) - 1) :
             w[i + 1].time > w[i].time /\ w[i + 1].progress > w[i].progress)
          => /\ r.eta # Absent
             /\ C8_Nearest(r.eta[1], w, p)
  /\ LET m0 == metaOf(<< >>, 0, now)
         r1 == computeSmoothedEta(m0, 0, now)
         r2 == computeSmoothedEta([m0 EXCEPT !.samples = r1.samples], 20, now + 10000)
         r3 == computeSmoothedEta([m0 EXCEPT !.samples = r2.samples], 40, now + 20000)
     IN r3.eta = Some(30)

\* C8 witness: the file's events carried 0, 20 and 40 at 10-second spacing (the
\* sample of progress 0 is not kept) and its entry shows 30 seconds.
C8_Witness ==
  /\ lastOp.op = "file"
  /\ 1 \in DOMAIN fileMetaRef
  /\ fileMetaRef[1].samples = <<[time |-> 10000, progress |-> 20],
                                 [time |-> 20000, progress |-> 40]>>
  /\ fileProgress[1].etaSeconds = Some(30)

\* C9: computeSmoothedEta returns no ETA when the new progress is 0, when the
\* window holds one sample once the new one is appended, and when every
\* consecutive pair of the window has a non-positive progress difference or a
\* non-positive time difference.
C9_NoEtaCases ==
  \A meta \in C8_Metas, p \in EtaProgressInputs :
    LET r == computeSmoothedEta(meta, p, now)
        w == nextSamples(meta.samples, now, p)
    IN /\ p = 0 => r.eta = Absent
       /\ Len(w) = 1 => r.eta = Absent
       /\ (\A i \in 1..(Len(w) - 1) :
              \/ w[i + 1].progress - w[i].progress <= 0
              \/ w[i + 1].time - w[i].time <= 0)
          => r.eta = Absent

\* C9 witness: a file whose window holds two samples taken ten seconds apart with
\* falling progress, and whose entry shows no ETA.
C9_Witness ==
  /\ lastOp.op = "file"
  /\ 1 \in DOMAIN fileMetaRef
  /\ fileMetaRef[1].samples = <<[time |-> 0, progress |-> 40],
                                 [time |-> 10000, progress |-> 20]>>
  /\ fileProgress[1].etaSeconds = Absent

\* ======================================================== SpecProgress
\* One queued item followed through processing:queue events.  The run starts in
\* the state the view is in once "m.mkv" was typed into the HDR and DV fields, Add
\* to Queue was pressed, and the five listeners were registered.
QueuedItem ==
  [id |-> 1, hdrFile |-> FileA, dvFile |-> FileA,
   outputFile |-> <<"m">> \o DotHybridMkv, hdrPath |-> FileA, dvPath |-> FileA,
   outputPath |-> <<"m">> \o DotHybridMkv,
   status |-> "pending", progress |-> 0, currentStep |-> None, etaSeconds |-> Absent,
   activeWorkers |-> Absent, fileTotal |-> Absent]

\* The view once, n times, "m.mkv" was typed into the HDR and DV fields and Add to
\* Queue was pressed: everything but the host and the listeners.
queuedItems(n) ==
  /\ config = initialConfig
  /\ pathKinds = [initialPathKinds EXCEPT !.hdr = "file", !.dv = "file"]
  /\ toolPaths = defaultToolPaths
  /\ dvDelayInput = Empty
  /\ hdr10plusDelayInput = Empty
  /\ showDelays = FALSE
  /\ presets = << >>
  /\ selectedPresetId = 0
  /\ queue = [i \in 1..n |-> [QueuedItem EXCEPT !.id = i]]
  /\ selectedQueueIds = 1..n
  /\ status = "idle"
  /\ steps = defaultSteps
  /\ logs = [i \in 1..n |->
               LogEntry("info", Msg("Added to queue: ", << >>, QueuedItem.outputFile))]
  /\ fileProgress = << >>
  /\ queueMetaRef = << >>
  /\ fileMetaRef = << >>
  /\ statusRef = "idle"
  /\ uuid = n
  /\ now = 0
  /\ inFlight = << >>
  /\ pendingCancel = 0
  /\ sims = << >>
  /\ notifyCalls = 0
  /\ lastEvent = "none"
  /\ prevEvent = "none"
  /\ tornDown = FALSE
  /\ storage = stored(initialConfig, defaultToolPaths, << >>)
  /\ mounted = TRUE
  /\ fatal = FALSE
  /\ debounce = noTimeouts
  /\ lastOp = [op |-> "init", id |-> 0]

queuedForm == queuedItems(1)

\* setupListeners has run to its end (part_001:392-482).
listenersReady ==
  /\ unlisten = {ListenerNames[i] : i \in 1..Len(ListenerNames)}
  /\ active = {ListenerNames[i] : i \in 1..Len(ListenerNames)}
  /\ setupPc = Len(ListenerNames)

ProgressInit ==
  /\ queuedForm
  /\ tauri = TRUE
  /\ listenersReady

\* Events arrive for the queued item and for an id that is in no queue.
QueueEventIds == {1, 3}
QueueEvents ==
  {<<"processing", 0>>, <<"processing", 20>>, <<"processing", 40>>,
   <<"pending", 0>>, <<"completed", 100>>, <<"error", 20>>}

ProgressNext ==
  \/ Tick(TickMs) /\ Did("other", 0)
  \/ \E id \in QueueEventIds, e \in QueueEvents :
       onQueue(id, e[1], e[2], None, Absent, Absent) /\ Did("queue", id)
  \/ handleClear /\ Did("other", 0)

SpecProgress == ProgressInit /\ [][ProgressNext]_vars

\* C10: after a processing:queue event with status processing for an item of the
\* queue, if the item's stored window has no pair with a positive rate, the
\* item's etaSeconds is absent.
C10_NoRateNoEta ==
  [][lastOp'.op = "queue" =>
       \A k \in 1..Len(queue') :
         (/\ queue'[k].id = lastOp'.id
          /\ queue'[k].status = "processing"
          /\ \A i \in 1..(Len(queueMetaRef'[lastOp'.id].samples) - 1) :
               LET w == queueMetaRef'[lastOp'.id].samples
               IN w[i + 1].progress <= w[i].progress \/ w[i + 1].time <= w[i].time)
         => queue'[k].etaSeconds = Absent]_vars

\* ============================================================= SpecRun
\* A run of the queued item, with and without the host: the host's progress and
\* status events, Start and its outcomes, Stop, Clear, and the passing of time.
RunInit ==
  /\ queuedForm
  /\ tauri \in BOOLEAN
  /\ IF tauri THEN listenersReady
     ELSE unlisten = {} /\ active = {} /\ setupPc = 0

RunQueueEvents ==
  {<<"processing", 20>>, <<"processing", 40>>, <<"pending", 0>>, <<"completed", 100>>,
   <<"error", 20>>}

\* What the start_processing command rejects with: an Error (a failed import of
\* the host API) or the string the host command returned.
RunRejections ==
  {[kind |-> "Error", message |-> "failed"], [kind |-> "string", text |-> "busy"]}

RunNext ==
  \/ Tick(2 * TickMs) /\ Did("other", 0)
  \/ \E e \in RunQueueEvents :
       onQueue(1, e[1], e[2], None, Absent, Absent) /\ Did("queue", 1)
  \/ handleStart /\ Did("handleStart", 0)
  \/ StartResolved /\ Did("other", 0)
  \/ \E e \in RunRejections : StartRejected(rejectionMessage(e)) /\ Did("StartRejected", e)
  \/ handleStop /\ Did("handleStop", 0)
  \/ CancelSettled /\ Did("other", 0)
  \/ handleClear /\ Did("handleClear", 0)

SpecRun == RunInit /\ [][RunNext]_vars

\* C11: no ETA window is stored for a queue item whose status is completed, error
\* or pending; and the first processing event of an item after such a status
\* leaves a window that holds samples of that event only, so that
\* computeSmoothedEta returned no ETA for it.
C11_NoWindowUnlessProcessing ==
  /\ [](\A k \in 1..Len(queue) :
          queue[k].status \in {"completed", "error", "pending"}
          => queue[k].id \notin DOMAIN queueMetaRef)
  /\ [][\A k \in 1..Len(queue) :
          (/\ lastOp'.op = "queue"
           /\ queue[k].id = lastOp'.id
           /\ queue[k].status \in {"completed", "error", "pending"}
           /\ Len(queue') = Len(queue)
           /\ queue'[k].status = "processing")
          => /\ queue[k].id \in DOMAIN queueMetaRef'
             /\ Len(queueMetaRef'[queue[k].id].samples) <= 1
             /\ \A i \in 1..Len(queueMetaRef'[queue[k].id].samples) :
                  queueMetaRef'[queue[k].id].samples[i].time = now
             /\ computeSmoothedEta(metaOf(queueMetaRef, queue[k].id, now),
                                   queue'[k].progress, now).eta = Absent]_vars

\* C11 witness: the item got an ETA of 60 seconds from two samples, and the error
\* event that followed discarded its window.
C11_Witness ==
  /\ lastOp.op = "queue"
  /\ Len(queue) = 1
  /\ queue[1].status = "error"
  /\ queue[1].etaSeconds = Some(60)
  /\ queue[1].id \notin DOMAIN queueMetaRef

\* C17: when the start_processing command rejects, the console gains exactly one
\* line, of type error, whose text is the message of the rejection; status
\* becomes error, so the view is no longer processing; queue and selection are
\* unchanged.
C17_RejectedStartIsLogged ==
  [][lastOp'.op = "StartRejected" =>
       /\ Len(logs') = Len(logs) + 1
       /\ SubSeq(logs', 1, Len(logs)) = logs
       /\ logs'[Len(logs')].type = "error"
       /\ logs'[Len(logs')].message.text =
            (IF lastOp'.id.kind = "Error" THEN lastOp'.id.message ELSE lastOp'.id.text)
       /\ logs'[Len(logs')].message.nums = << >>
       /\ logs'[Len(logs')].message.arg = Empty
       /\ status' = "error"
       /\ ~isProcessing'
       /\ UNCHANGED <<queue, selectedQueueIds>>]_vars

\* C17 witness: the host's refusal "busy" is the last console line, the status
\* is error and the queued item is still there and selected.
C17_Witness ==
  /\ lastOp.op = "StartRejected"
  /\ status = "error"
  /\ Len(logs) > 0
  /\ logs[Len(logs)] = LogEntry("error", Msg("busy", << >>, Empty))
  /\ Len(queue) = 1
  /\ selectedQueueIds = {1}

\* C19: Stop with the host present adds one cancel_processing command to those
\* in flight and changes nothing else; Stop with the host absent issues no
\* command and, in the same step, sets status to idle, the steps to their
\* defaults, every queue item to pending with progress 0 and the file entries
\* to none, and appends one warning line to the console.
C19_StopCancelsOrResets ==
  [][lastOp'.op = "handleStop" =>
       IF tauri
       THEN /\ pendingCancel' = pendingCancel + 1
            /\ UNCHANGED <<formVars, presetVars, queueVars, runVars, logs, metaVars,
                           inFlight, sims, notifyVars, listenVars, storage>>
       ELSE /\ UNCHANGED <<pendingCancel, inFlight>>
            /\ status' = "idle"
            /\ Len(steps') = 6
            /\ \A i \in 1..Len(steps') :
                 steps'[i].status = "pending" /\ steps'[i].progress = 0
            /\ Len(queue') = Len(queue)
            /\ \A k \in 1..Len(queue') :
                 /\ queue'[k].id = queue[k].id
                 /\ queue'[k].status = "pending"
                 /\ queue'[k].progress = 0
            /\ fileProgress' = << >>
            /\ Len(logs') = Len(logs) + 1
            /\ SubSeq(logs', 1, Len(logs)) = logs
            /\ logs'[Len(logs')].type = "warning"]_vars

\* C19 witness: without the host, Stop has reset the item the simulated run was
\* processing and logged its warning.
C19_Witness ==
  /\ lastOp.op = "handleStop"
  /\ ~tauri
  /\ status = "idle"
  /\ Len(queue) = 1
  /\ queue[1].status = "pending"
  /\ Len(sims) = 1
  /\ logs[Len(logs)].type = "warning"

\* ========================================================== SpecBrowse
\* The browse buttons of the four path fields, with dialogs and prompts that
\* return a path, an empty text, or nothing.
BrowseResults == {None, Empty, FileA}

BrowseTargets == {"hdr", "dv", "output"}

BrowseNext ==
  \/ \E t \in BrowseTargets, sel \in BrowseResults : browseFile(t, sel) /\ Did("browseFile", sel)
  \/ \E t \in BrowseTargets, sel \in BrowseResults :
       browseFolder(t, sel) /\ Did("browseFolder", sel)
  \/ addToQueue /\ Did("other", 0)
  \/ handleStart /\ Did("other", 0)
  \/ StartRejected("failed") /\ Did("other", 0)
  \/ handleClear /\ Did("other", 0)

SpecBrowse == Init /\ [][BrowseNext]_vars

\* C20: a browse whose dialog returned no string, or whose prompt returned
\* nothing, leaves the config paths, the path kinds, the queue, the status and
\* the console as they were.
C20_CancelledBrowseIsNoOp ==
  [][(/\ lastOp'.op \in {"browseFile", "browseFolder"}
      /\ \/ lastOp'.id = None
         \/ ~tauri /\ lastOp'.id = Empty)
     => UNCHANGED <<config, pathKinds, queue, status, logs>>]_vars

\* C20 witness: a file browse was cancelled while the form held a path, the
\* queue an item and the console a line.
C20_Witness ==
  /\ lastOp.op = "browseFile"
  /\ lastOp.id = None
  /\ config.outputPath = FileA
  /\ pathKinds.output = "folder"
  /\ Len(queue) = 1
  /\ Len(logs) > 0

\* =========================================================== SpecFatal
\* The host commands of a run and their outcomes, rejections included.  The
\* buttons exist while the page shows the view; the continuations of the
\* commands and the listeners run whatever the page shows.
FatalNext ==
  \/ interactive /\ handleStart /\ Did("handleStart", 0)
  \/ StartResolved /\ Did("other", 0)
  \/ \E e \in RunRejections : StartRejected(rejectionMessage(e)) /\ Did("StartRejected", e)
  \/ interactive /\ handleStop /\ Did("handleStop", 0)
  \/ CancelSettled /\ Did("other", 0)
  \/ CancelRejected /\ Did("CancelRejected", 0)
  \/ interactive /\ handleClear /\ Did("handleClear", 0)
  \/ \E s \in EventStatuses : onStatus(s) /\ Did("status", 0)

SpecFatal == RunInit /\ [][FatalNext]_vars

\* C18: after a rejected start_processing or cancel_processing command the page
\* still shows the view, mounted and not replaced by the fatal page.
C18_RejectionIsNotFatal ==
  [][lastOp'.op \in {"StartRejected", "CancelRejected"} => interactive']_vars

\* ========================================================== SpecWindow
\* The sample windows of the queued item and of one file, filled by progress
\* events of both listeners while time passes.
WindowQueueEvents == {<<"processing", 0>>, <<"processing", 20>>, <<"pending", 0>>}
WindowFileProgress == {0, 20, 40}

WindowNext ==
  \/ Tick(2 * TickMs) /\ Did("other", 0)
  \/ \E e \in WindowQueueEvents :
       onQueue(1, e[1], e[2], None, Absent, Absent) /\ Did("queue", 1)
  \/ \E p \in WindowFileProgress : onFile(1, 1, <<"f">>, p) /\ Did("file", 1)

SpecWindow == ProgressInit /\ [][WindowNext]_vars

\* The window `new` is the window `old` with sample (t, progress) appended and,
\* when that makes more than six, its oldest sample evicted.
C12_Appended(old, new, t, progress) ==
  LET sample == [time |-> t, progress |-> progress]
  IN IF Len(old) < 6 THEN new = Append(old, sample)
     ELSE new = Append(Tail(old), sample)

\* C12: every stored window holds at most 6 samples, and each progress event
\* that records a sample leaves the window of its item or file equal to the
\* previous window followed by the new sample, less the oldest sample when there
\* would be seven; an event that records nothing leaves the samples as they were.
C12_WindowIsLastSix ==
  /\ [](/\ \A id \in DOMAIN queueMetaRef : Len(queueMetaRef[id].samples) <= 6
        /\ \A id \in DOMAIN fileMetaRef : Len(fileMetaRef[id].samples) <= 6)
  /\ [][lastOp'.op = "file" =>
          LET id == lastOp'.id
              old == IF id \in DOMAIN fileMetaRef THEN fileMetaRef[id].samples ELSE << >>
              new == fileMetaRef'[id].samples
              k == CHOOSE j \in 1..Len(fileProgress') : fileProgress'[j].id = id
              p == fileProgress'[k].progress
          IN IF p > 0 THEN C12_Appended(old, new, now, p) ELSE new = old]_vars
  /\ [][(lastOp'.op = "queue" /\ Len(queue') > 0 /\ queue'[1].status = "processing") =>
          LET id == queue'[1].id
              old == IF id \in DOMAIN queueMetaRef THEN queueMetaRef[id].samples ELSE << >>
              new == queueMetaRef'[id].samples
              p == queue'[1].progress
          IN IF p > 0 THEN C12_Appended(old, new, now, p) ELSE new = old]_vars

\* C12 witness: the file's window holds the six latest samples, all of progress
\* 40, while its entry still shows the ETA computed when the evicted sample of
\* progress 20 was in the window; the item's window is full as well.
C12_Witness ==
  /\ lastOp.op \in {"file", "queue"}
  /\ 1 \in DOMAIN fileMetaRef
  /\ fileMetaRef[1].samples = [i \in 1..6 |-> [time |-> 2 * TickMs, progress |-> 40]]
  /\ fileProgress[1].etaSeconds = Some(60)
  /\ 1 \in DOMAIN queueMetaRef
  /\ Len(queueMetaRef[1].samples) = 6

\* =========================================================== SpecQueue
\* The queue list: three queued items, reordered by drag and drop, selected and
\* deselected, and completed by the host.
QueueInit ==
  /\ queuedItems(QueueItems)
  /\ tauri = TRUE
  /\ listenersReady

\* The ids a drag can carry: those of the queue and one that is in no queue.
ReorderIds == 1..(QueueItems + 1)

QueueNext ==
  \/ \E s \in ReorderIds, t \in ReorderIds :
       handleReorderQueue(s, t) /\ Did("handleReorderQueue", <<s, t>>)
  \/ \E k \in 1..Len(queue) : onToggle(queue[k].id) /\ Did("other", 0)
  \/ onToggleAll /\ Did("onToggleAll", 0)
  \/ \E id \in ReorderIds :
       onQueue(id, "completed", 100, None, Absent, Absent) /\ Did("other", 0)
  \/ handleClear /\ Did("other", 0)

SpecQueue == QueueInit /\ [][QueueNext]_vars

\* The ids of a queue, in order.
C13_Ids(q) == [k \in 1..Len(q) |-> q[k].id]

\* C13: a reorder whose source and target ids are both in the queue and differ
\* leaves a permutation of the same items with the moved item at the index the
\* target had and the other items in their previous relative order; moving the
\* third of three items onto the first gives third, first, second; with an
\* absent id or equal ids the queue is unchanged.
C13_ReorderMovesToTarget ==
  [][lastOp'.op = "handleReorderQueue" =>
       LET s == lastOp'.id[1]
           t == lastOp'.id[2]
           at(id) == {k \in 1..Len(queue) : queue[k].id = id}
       IN IF at(s) # {} /\ at(t) # {} /\ s # t
          THEN /\ Len(queue') = Len(queue)
               /\ {queue'[k] : k \in 1..Len(queue')} = {queue[k] : k \in 1..Len(queue)}
               /\ \A k \in at(t) : queue'[k].id = s
               /\ SelectSeq(queue', LAMBDA item : item.id # s)
                    = SelectSeq(queue, LAMBDA item : item.id # s)
               /\ (C13_Ids(queue) = <<1, 2, 3>> /\ s = 3 /\ t = 1)
                    => C13_Ids(queue') = <<3, 1, 2>>
          ELSE queue' = queue]_vars

\* C13 witness: the third item was dropped onto the first.
C13_Witness ==
  /\ lastOp.op = "handleReorderQueue"
  /\ lastOp.id = <<3, 1>>
  /\ C13_Ids(queue) = <<3, 1, 2>>

\* C15: with a non-empty queue, select-all on a selection that is a proper subset
\* of the queue's ids selects every id of the queue, and select-all on the
\* selection of every id empties the selection.
C15_SelectAllThenNone ==
  [][(lastOp'.op = "onToggleAll" /\ Len(queue) > 0) =>
       LET ids == {queue[k].id : k \in 1..Len(queue)}
       IN /\ (selectedQueueIds \subseteq ids /\ selectedQueueIds # ids)
               => selectedQueueIds' = ids
          /\ selectedQueueIds = ids => selectedQueueIds' = {}
          /\ queue' = queue]_vars

\* C15 witness: select-all has just turned a partial selection into the
\* selection of the whole reordered queue.
C15_Witness ==
  /\ lastOp.op = "onToggleAll"
  /\ Len(queue) = QueueItems
  /\ C13_Ids(queue) # <<1, 2, 3>>
  /\ selectedQueueIds = {queue[k].id : k \in 1..Len(queue)}

\* =========================================================== SpecClear
\* A session that fills every part of the display (paths, a preset, console
\* lines, steps, the queued item, a file, both window stores, a final status) and
\* is cleared.
ClearNext ==
  \/ \E t \in {"hdr", "output"} : TextEntry(t, FileA) /\ Did("other", 0)
  \/ savePreset(<<"p">>) /\ Did("other", 0)
  \/ onLog("info", "line") /\ Did("other", 0)
  \/ onStep(1, "active", 50) /\ Did("other", 0)
  \/ onQueue(1, "processing", 20, None, Absent, Absent) /\ Did("queue", 1)
  \/ onFile(1, 1, <<"f">>, 20) /\ Did("file", 1)
  \/ \E s \in EventStatuses : onStatus(s) /\ Did("status", 0)
  \/ handleClear /\ Did("handleClear", 0)

SpecClear == ProgressInit /\ [][ClearNext]_vars

\* C14: Clear leaves, in one step, no console line, no queue item, six steps that
\* are pending with progress 0, no file entry, no selected id, status idle and
\* both window stores empty, and leaves the form's paths and kinds, the tool
\* paths and the presets as they were.
C14_ClearResetsSession ==
  [][lastOp'.op = "handleClear" =>
       /\ logs' = << >>
       /\ queue' = << >>
       /\ Len(steps') = 6
       /\ \A i \in 1..Len(steps') :
            steps'[i].id = i /\ steps'[i].status = "pending" /\ steps'[i].progress = 0
       /\ fileProgress' = << >>
       /\ selectedQueueIds' = {}
       /\ status' = "idle"
       /\ DOMAIN queueMetaRef' = {}
       /\ DOMAIN fileMetaRef' = {}
       /\ UNCHANGED <<config, pathKinds, toolPaths, presets, selectedPresetId>>]_vars

\* C14 witness: Clear ran after a completed run that had been notified, with a
\* path in the form and a saved preset.
C14_Witness ==
  /\ lastOp.op = "handleClear"
  /\ statusRef = "completed"
  /\ notifyCalls = 1
  /\ config.hdrPath = FileA
  /\ Len(presets) = 1
  /\ status = "idle"

\* ============================================================ SpecLoad
\* The mount of the view on a localStorage left by an earlier session or by
\* anything else that writes the three keys.
\* The load of the config entry (part_001:285-294): the config it installs, and
\* whether the updater `prev => ({ ...prev, parallelTasks: parsed.parallelTasks ??
\* 4, ... })` throws when React runs it, which it does outside the try block, on
\* a parsed value of null.  A primitive or an array has no such properties.
loadConfig(text, prev) ==
  IF text.kind = "none" \/ ~text.valid THEN [threw |-> FALSE, config |-> prev]
  ELSE LET parsed == text.value
       IN IF parsed.t = "null" THEN [threw |-> TRUE, config |-> prev]
          ELSE IF parsed.t = "object"
          THEN [threw |-> FALSE,
                config |-> [prev EXCEPT
                  !.parallelTasks =
                     IF "parallelTasks" \in DOMAIN parsed.obj /\ parsed.obj.parallelTasks.t # "null"
                     THEN scalarOf(parsed.obj.parallelTasks) ELSE 4,
                  !.keepTempFiles =
                     IF "keepTempFiles" \in DOMAIN parsed.obj /\ parsed.obj.keepTempFiles.t # "null"
                     THEN scalarOf(parsed.obj.keepTempFiles) ELSE FALSE]]
          ELSE [threw |-> FALSE,
                config |-> [prev EXCEPT !.parallelTasks = 4, !.keepTempFiles = FALSE]]

\* The own enumerable properties `{ ...parsed }` copies: the fields of an object,
\* the indexed characters of a string or items of an array, nothing of null, a
\* number or a boolean.
spreadOf(parsed) ==
  LET indexed(seq) == [k \in {Digits[i] : i \in 1..Len(seq)} |->
                         seq[CHOOSE i \in 1..Len(seq) : Digits[i] = k]]
  IN IF parsed.t = "object" THEN [k \in DOMAIN parsed.obj |-> scalarOf(parsed.obj[k])]
     ELSE IF parsed.t = "string" THEN indexed(parsed.str)
     ELSE IF parsed.t = "array" THEN indexed(parsed.arr)
     ELSE << >>

\* The load of the tool paths entry (part_001:296-301):
\* setToolPaths({ ...defaultToolPaths, ...parsed }).
loadTools(text, prev) ==
  IF text.kind = "none" \/ ~text.valid THEN prev
  ELSE LET extra == spreadOf(text.value)
       IN [k \in DOMAIN defaultToolPaths \cup DOMAIN extra |->
             IF k \in DOMAIN extra THEN extra[k] ELSE defaultToolPaths[k]]

\* The load of the presets entry (part_001:303-312): an array replaces the
\* presets, whatever its items are.
loadPresets(text, prev) ==
  IF text.kind = "none" \/ ~text.valid THEN prev
  ELSE IF text.value.t = "array"
  THEN [i \in 1..Len(text.value.arr) |->
          IF text.value.arr[i].t = "object" THEN text.value.arr[i].obj
          ELSE scalarOf(text.value.arr[i])]
  ELSE prev

\* Rendering the preset list reads preset.id and preset.name of every item
\* (part_001:941-943), which throws on a null item.
presetsRenderThrows(ps) == \E i \in 1..Len(ps) : "t" \in DOMAIN ps[i] /\ ps[i].t = "null"

\* The mount effects (part_001:279-328), with the render they cause.  The load
\* effect reads the three entries and queues its state updates, the save effects
\* then store the state of the first render, and the render of the loaded state
\* follows, after which the save effects store what changed.  A render that
\* throws is uncaught: React unmounts the view and the error reaches the window
\* error listener, which calls showFatal (part_002:730-737).
Mount ==
  /\ ~mounted
  /\ mounted' = TRUE
  /\ LET c == loadConfig(storage.config, config)
         t == loadTools(storage.tools, toolPaths)
         ps == loadPresets(storage.presets, presets)
         threw == c.threw \/ presetsRenderThrows(ps)
     IN /\ fatal' = threw
        /\ config' = (IF threw THEN config ELSE c.config)
        /\ toolPaths' = (IF threw THEN toolPaths ELSE t)
        /\ presets' = (IF threw THEN presets ELSE ps)
        /\ storage' = (IF threw THEN stored(config, toolPaths, presets)
                       ELSE stored(c.config, t, ps))
  /\ UNCHANGED <<pathKinds, dvDelayInput, hdr10plusDelayInput, showDelays, selectedPresetId,
                 queueVars, logs, restVars, tauri, uuid, now, debounce>>

\* A preset as savePreset stores it.
StoredPreset ==
  [id |-> 1, name |-> <<"p">>, config |-> [initialConfig EXCEPT !.hdrPath = FileA],
   toolPaths |-> defaultToolPaths, dvDelayInput |-> Empty, hdr10plusDelayInput |-> Empty,
   showDelays |-> FALSE]

\* Stored texts of the three keys: none, text that is no JSON, JSON of another
\* shape, and what the save effects write.
ConfigTexts ==
  {NoEntry, NotJson, JsonText(JNull), JsonText(JNum(5)),
   JsonText(JObj([parallelTasks |-> JNum(2)])),
   stringifyConfig([initialConfig EXCEPT !.parallelTasks = 2, !.keepTempFiles = TRUE])}
ToolsTexts ==
  {NoEntry, NotJson, JsonText(JNull), JsonText(JStr(<<"a", "b">>)),
   JsonText(JObj([ffmpeg |-> JStr("/opt/ffmpeg")])),
   stringifyTools(defaultToolPaths)}
PresetsTexts ==
  {NoEntry, NotJson, JsonText(JNull), JsonText(JArr(<<JNull>>)),
   JsonText(JObj([id |-> JNum(1)])),
   stringifyPresets(<<StoredPreset>>)}

LoadInit ==
  /\ constructed
  /\ mounted = FALSE
  /\ storage \in [config : ConfigTexts, tools : ToolsTexts, presets : PresetsTexts]

LoadNext ==
  \/ Mount /\ Did("Mount", 0)
  \/ interactive /\ Len(presets) > 0 /\ handlePresetChange(presets[1].id) /\ Did("other", 0)
  \/ interactive /\ TextEntry("hdr", FileA) /\ Did("other", 0)

SpecLoad == LoadInit /\ [][LoadNext]_vars

\* The stored text is JSON of the shape the save effect of the key writes.
C16_ConfigShaped(text) ==
  /\ text.kind = "text" /\ text.valid /\ text.value.t = "object"
  /\ \A k \in DOMAIN text.value.obj :
       \/ k = "parallelTasks" /\ text.value.obj[k].t = "number"
       \/ k = "keepTempFiles" /\ text.value.obj[k].t = "boolean"
C16_ToolsShaped(text) ==
  /\ text.kind = "text" /\ text.valid /\ text.value.t = "object"
  /\ \A k \in DOMAIN text.value.obj :
       k \in DOMAIN defaultToolPaths /\ text.value.obj[k].t = "string"
C16_PresetsShaped(text) ==
  /\ text.kind = "text" /\ text.valid /\ text.value.t = "array"
  /\ \A i \in 1..Len(text.value.arr) :
       text.value.arr[i].t = "object" /\ DOMAIN text.value.arr[i].obj = DOMAIN StoredPreset

\* What C16 requires of the mount: no fatal page; for each key, the defaults
\* unless the entry is well-formed, and then its fields laid over the defaults.
C16_Loaded ==
  /\ ~fatal'
  /\ IF C16_ConfigShaped(storage.config)
     THEN \A k \in {"parallelTasks", "keepTempFiles"} :
            config'[k] = IF k \in DOMAIN storage.config.value.obj
                         THEN scalarOf(storage.config.value.obj[k])
                         ELSE initialConfig[k]
     ELSE config' = initialConfig
  /\ IF C16_ToolsShaped(storage.tools)
     THEN /\ DOMAIN toolPaths' = DOMAIN defaultToolPaths
          /\ \A k \in DOMAIN defaultToolPaths :
               toolPaths'[k] = IF k \in DOMAIN storage.tools.value.obj
                               THEN storage.tools.value.obj[k].str
                               ELSE defaultToolPaths[k]
     ELSE toolPaths' = defaultToolPaths
  /\ IF C16_PresetsShaped(storage.presets)
     THEN presets' = [i \in 1..Len(storage.presets.value.arr) |->
                        storage.presets.value.arr[i].obj]
     ELSE presets' = << >>

\* C16: the mount never ends in the fatal page; an entry that is absent, no JSON
\* or of another shape leaves the defaults in the state it belongs to; a
\* well-formed entry's fields are laid over the defaults.
C16_LoadFallsBackToDefaults == [][lastOp'.op = "Mount" => C16_Loaded]_vars

\* ======================================================== SpecClassify
\* Texts typed into the HDR and DV fields, and presets saved and applied: the two
\* places that classify a path from its text.
\* "d/", "\x" and "/": a separator at the end, and one that is not.
DirSlash == <<"d", "/">>
SepFirst == <<"\\", "x">>
ClassifyInputs == {Empty, FileA, DirA, DirSlash, SepFirst}
ClassifyTargets == {"hdr", "dv"}

ClassifyNext ==
  \/ \E t \in ClassifyTargets, v \in ClassifyInputs :
       TextEntry(t, v) /\ Did("TextEntry", <<t, v>>)
  \/ savePreset(<<"p">>) /\ Did("savePreset", 0)
  \/ \E i \in 1..Len(presets) :
       handlePresetChange(presets[i].id) /\ Did("applyPreset", presets[i].id)

SpecClassify == Init /\ [][ClassifyNext]_vars

\* The path of config that belongs to a path field.
C21_PathOf(c, target) ==
  IF target = "hdr" THEN c.hdrPath
  ELSE IF target = "hdr10plus" THEN c.hdr10plusPath
  ELSE IF target = "dv" THEN c.dvPath
  ELSE c.outputPath

\* The last character of the text is a path separator.
C21_EndsInSeparator(v) == Len(v) > 0 /\ v[Len(v)] \in {"\\", "/"}

\* The kind C21 gives a text: folder when it ends in a separator, else file.
C21_Kind(v) == IF C21_EndsInSeparator(v) THEN "folder" ELSE "file"

\* C21 as stated: after a text entry the field's kind, and after a preset is
\* applied the kind of each of the four fields, is folder when the field's text
\* ends in a path separator and file for every other text.
C21_KindFromText ==
  [][/\ lastOp'.op = "TextEntry"
          => pathKinds'[lastOp'.id[1]] = C21_Kind(lastOp'.id[2])
     /\ lastOp'.op = "applyPreset"
          => \A t \in Targets : pathKinds'[t] = C21_Kind(C21_PathOf(config', t))]_vars

\* C21 amended: the same for every text that is not empty; the empty text is
\* classified file by a text entry and unknown when a preset is applied.
C21_KindFromNonEmptyText ==
  [][/\ lastOp'.op = "TextEntry"
          => pathKinds'[lastOp'.id[1]] = C21_Kind(lastOp'.id[2])
     /\ lastOp'.op = "applyPreset"
          => \A t \in Targets :
               pathKinds'[t] = IF C21_PathOf(config', t) = Empty THEN "unknown"
                               ELSE C21_Kind(C21_PathOf(config', t))]_vars

\* C21 witness: a preset was applied that holds "d/" for the HDR field and "d\"
\* for the DV field, after both fields had been retyped as files.
C21_Witness ==
  /\ lastOp.op = "applyPreset"
  /\ config.hdrPath = DirSlash /\ config.dvPath = DirA
  /\ pathKinds.hdr = "folder" /\ pathKinds.dv = "folder"
  /\ pathKinds.output = "unknown"

\* ========================================================== SpecOutput
\* Paths typed into the HDR, DV and output fields, and Add to Queue.
\* "d\m.mkv", "d/m.mkv" and "m.mkvs": a file in a folder named with either
\* separator, and a name that holds ".mkv" before its end.
HdrNested == <<"d", "\\", "m", ".", "m", "k", "v">>
HdrSlash == <<"d", "/", "m", ".", "m", "k", "v">>
HdrMkvInside == <<"m", ".", "m", "k", "v", "s">>
OutputHdrInputs == {FileA, HdrNested, HdrSlash, HdrMkvInside, NameOther}
OutputFileInputs == {Empty, <<"o">>}

OutputNext ==
  \/ \E v \in OutputHdrInputs : TextEntry("hdr", v) /\ Did("other", 0)
  \/ \E v \in TypedInputs : TextEntry("dv", v) /\ Did("other", 0)
  \/ \E v \in OutputFileInputs : TextEntry("output", v) /\ Did("other", 0)
  \/ addToQueue /\ Did("addToQueue", 0)

SpecOutput == Init /\ [][OutputNext]_vars

\* The last component of a path whose components are separated by "\" or "/".
RECURSIVE C22_BaseName(_)
C22_BaseName(p) ==
  IF \E i \in 1..(Len(p) - 1) : p[i] \in {"\\", "/"}
  THEN C22_BaseName(Tail(p))
  ELSE p

\* The name with a trailing ".mkv" removed.
C22_StripTrailingMkv(s) ==
  IF Len(s) >= 4 /\ SubSeq(s, Len(s) - 3, Len(s)) = DotMkv THEN SubSeq(s, 1, Len(s) - 4) ELSE s

\* What C22 requires of the entry addToQueue appends in single mode.
C22_Entry(e) ==
  LET expected == IF config.outputPath # Empty THEN config.outputPath
                  ELSE C22_StripTrailingMkv(C22_BaseName(derivedHdrPath)) \o DotHybridMkv
  IN e.outputFile = expected /\ e.outputPath = expected

ModeInputs == {Empty, FileA, DirA}

ModeNext ==
  \/ \E t \in StartTargets, v \in ModeInputs : TextEntry(t, v) /\ Did("other", 0)
  \/ addToQueue /\ Did("other", 0)
  \/ \E k \in 1..Len(queue) : onToggle(queue[k].id) /\ Did("other", 0)
  \/ handleStart /\ Did("handleStart", 0)
  \/ handleStartPathOnly /\ Did("handleStartPathOnly", 0)
  \/ handleClear /\ Did("other", 0)

SpecMode == Init /\ [][ModeNext]_vars

\* The mode the Start of this step ran with: if it was accepted, the mode of the
\* request it sent (with the host) or the mode the simulation logged (without);
\* if it was refused, the mode whose validation refused it.
C23_StartedMode ==
  IF status' = "processing"
  THEN (IF tauri THEN inFlight'[Len(inFlight')].mode
        ELSE IF logs'[Len(logs) + 2].message.text = "Mode: Batch" THEN "batch" ELSE "single")
  ELSE IF logs'[Len(logs')].message.text \in {"Please add files to the queue first",
                                              "Please select at least one queue item"}
  THEN "batch" ELSE "single"

\* The kind of the populated primary source: HDR if set, else HDR10+.
C23_PrimaryKind == IF config.hdrPath # Empty THEN pathKinds.hdr ELSE pathKinds.hdr10plus

\* C23: the mode a Start runs with is decided by the state it starts from.  In
\* the queue-aware revision it is batch exactly when the queue is non-empty or
\* the kind of the populated primary source and the DV kind are both folder; in
\* the path-only revisions exactly when the HDR and DV kinds are both folder;
\* otherwise single.
C23_ModeFromState ==
  [][/\ lastOp'.op = "handleStart"
          => C23_StartedMode =
               IF Len(queue) > 0 \/ (C23_PrimaryKind = "folder" /\ pathKinds.dv = "folder")
               THEN "batch" ELSE "single"
     /\ lastOp'.op = "handleStartPathOnly"
          => C23_StartedMode =
               IF pathKinds.hdr = "folder" /\ pathKinds.dv = "folder"
               THEN "batch" ELSE "single"]_vars

\* C23 witness: the queue-aware Start ran in batch mode on the HDR10+ and DV
\* folders, with an empty queue, while the kind of the empty HDR field was file;
\* and so refused to start.
C23_Witness ==
  /\ lastOp.op = "handleStart" /\ status = "idle"
  /\ Len(queue) = 0 /\ config.hdrPath = Empty /\ config.hdr10plusPath = DirA
  /\ pathKinds.hdr = "file" /\ pathKinds.hdr10plus = "folder" /\ pathKinds.dv = "folder"
  /\ logs[Len(logs)].message.text = "Please add files to the queue first"

\* ======================================================== SpecDebounce
\* The revision that persists with a delay (part_001:1845-2583) and its tool
\* settings dialog (part_002:155-535): the HDR field typed into, a tool path
\* edited in the dialog, the three kinds of timeout, and the passing of time.

\* The delay of every debounce timeout (part_001:2104, 2118; part_002:333).
DebounceMs == 400

\* defaultToolPaths of the revision (part_001:1896-1902).
defaultToolPathsDebounced ==
  [doviTool |-> "bin\\dovi_tool.exe", mkvmerge |-> "bin\\mkvmerge.exe",
   mkvextract |-> "bin\\mkvextract.exe", ffmpeg |-> "bin\\ffmpeg.exe",
   defaultOutput |-> <<"D", "V", ".", "H", "D", "R">>]

\* The config of a first launch (part_001:1913-1933).
initialConfigDebounced == [initialConfig EXCEPT !.parallelTasks = 8]

\* JSON.stringify(config) (part_001:2113): every field the revision's config has.
stringifyWholeConfig(c) ==
  JsonText(JObj([hdrPath |-> JStr(c.hdrPath), dvPath |-> JStr(c.dvPath),
                 outputPath |-> JStr(c.outputPath), mode |-> JStr(c.mode),
                 parallelTasks |-> JNum(c.parallelTasks),
                 keepTempFiles |-> JBool(c.keepTempFiles)]))

\* window.clearTimeout(ref.current) (part_001:2094-2096, 2108-2110): the ref holds
\* the timeout scheduled last, which is dropped if it is still pending.
clearTimeout(pending) == SubSeq(pending, 1, Len(pending) - 1)

\* A save effect that schedules without clearing the pending timeout: C24 does
\* not survive it.
scheduleOnly(pending, value) == Append(pending, [due |-> now + DebounceMs, value |-> value])

\* A save effect (part_001:2092-2104, 2106-2118): the pending timeout of the group
\* is cleared and one is scheduled that stores `value`, the state of this render.
debounced(pending, value) ==
  Append(clearTimeout(pending), [due |-> now + DebounceMs, value |-> value])

\* areToolPathsEqual (part_002:310-316).
areToolPathsEqual(a, b) ==
  /\ a.doviTool = b.doviTool /\ a.mkvmerge = b.mkvmerge /\ a.mkvextract = b.mkvextract
  /\ a.ffmpeg = b.ffmpeg /\ a.defaultOutput = b.defaultOutput

\* The first render of a first launch and its effects: nothing is stored, the
\* lazy initialisers give the defaults (part_001:1913-1975), both save effects
\* schedule their first write, and the dialog's effect only notes the mount
\* (part_002:326-329).
MountDebounced ==
  /\ ~mounted
  /\ storage.config = NoEntry /\ storage.tools = NoEntry
  /\ mounted' = TRUE
  /\ config' = initialConfigDebounced
  /\ toolPaths' = defaultToolPathsDebounced
  /\ debounce' = [configSave |-> debounced(debounce.configSave, initialConfigDebounced),
                  toolPathsSave |-> debounced(debounce.toolPathsSave, defaultToolPathsDebounced),
                  paths |-> defaultToolPathsDebounced,
                  pathsSave |-> << >>]
  /\ UNCHANGED <<pathKinds, dvDelayInput, hdr10plusDelayInput, showDelays, presetVars,
                 queueVars, logs, restVars, tauri, uuid, now, storage, fatal>>

\* onChange of a path field (part_001:2406-2437) with the save effect of config
\* it causes.  The timeout it schedules fires within the run.
typePathDebounced(target, v) ==
  /\ ~isProcessing
  /\ now + DebounceMs <= MaxDebounceNow
  /\ config' = (IF target = "hdr" THEN [config EXCEPT !.hdrPath = v]
                ELSE IF target = "dv" THEN [config EXCEPT !.dvPath = v]
                ELSE [config EXCEPT !.outputPath = v])
  /\ pathKinds' = [pathKinds EXCEPT ![target] = typedKind(v)]
  /\ debounce' = [debounce EXCEPT !.configSave = debounced(@, config')]
  /\ UNCHANGED <<toolPaths, dvDelayInput, hdr10plusDelayInput, showDelays, presetVars,
                 queueVars, logs, restVars, tauri, uuid, now, storage, mounted, fatal>>

\* updatePath of the dialog (part_002:201-203) with the effect it causes
\* (part_002:325-335): the cleanup clears the timeout of the previous draft, and
\* a draft that differs from the tool paths schedules onSave.
updatePath(key, value) ==
  /\ now + 2 * DebounceMs <= MaxDebounceNow
  /\ LET next == [debounce.paths EXCEPT ![key] = value]
     IN debounce' = [debounce EXCEPT
                       !.paths = next,
                       !.pathsSave = IF areToolPathsEqual(next, toolPaths) THEN << >>
                                     ELSE <<[due |-> now + DebounceMs, value |-> next]>>]
  /\ UNCHANGED <<formVars, presetVars, queueVars, logs, restVars, tauri, uuid, now,
                 storage, mounted, fatal>>

\* The dialog's timeout fires: onSave(paths) is setToolPaths (part_002:331-333,
\* part_001:2395), the save effect of the tool paths runs, and the dialog's
\* effects take the new tool paths as the draft (part_002:321-335).
PathsSaveFires ==
  /\ Len(debounce.pathsSave) > 0
  /\ debounce.pathsSave[1].due <= now
  /\ toolPaths' = debounce.pathsSave[1].value
  /\ debounce' = [debounce EXCEPT !.pathsSave = << >>,
                                  !.paths = toolPaths',
                                  !.toolPathsSave = debounced(@, toolPaths')]
  /\ UNCHANGED <<config, pathKinds, dvDelayInput, hdr10plusDelayInput, showDelays,
                 presetVars, queueVars, logs, restVars, tauri, uuid, now, storage,
                 mounted, fatal>>

\* The timeout of the config save effect fires (part_001:2111-2117).
ConfigSaveFires ==
  /\ Len(debounce.configSave) > 0
  /\ debounce.configSave[1].due <= now
  /\ storage' = [storage EXCEPT !.config = stringifyWholeConfig(debounce.configSave[1].value)]
  /\ debounce' = [debounce EXCEPT !.configSave = Tail(@)]
  /\ UNCHANGED <<formVars, presetVars, queueVars, logs, restVars, tauri, uuid, now,
                 mounted, fatal>>

\* The timeout of the tool paths save effect fires (part_001:2097-2103).
ToolPathsSaveFires ==
  /\ Len(debounce.toolPathsSave) > 0
  /\ debounce.toolPathsSave[1].due <= now
  /\ storage' = [storage EXCEPT !.tools = stringifyTools(debounce.toolPathsSave[1].value)]
  /\ debounce' = [debounce EXCEPT !.toolPathsSave = Tail(@)]
  /\ UNCHANGED <<formVars, presetVars, queueVars, logs, restVars, tauri, uuid, now,
                 mounted, fatal>>

\* Every pending timeout of the revision.
pendingTimeouts == debounce.configSave \o debounce.toolPathsSave \o debounce.pathsSave

\* Time passes by dt on the mounted view, not beyond the time a pending timeout
\* is due at.
Elapse(dt) ==
  /\ mounted
  /\ now + dt <= MaxDebounceNow
  /\ \A i \in 1..Len(pendingTimeouts) : now + dt <= pendingTimeouts[i].due
  /\ Tick(dt)

DebounceInit ==
  /\ constructed
  /\ mounted = FALSE
  /\ storage = [config |-> NoEntry, tools |-> NoEntry, presets |-> NoEntry]

\* The tool path typed into the ffmpeg field of the dialog.
ToolPathInputs == {"bin\\ffmpeg.exe", "ffmpeg"}

DebounceNext ==
  \/ MountDebounced /\ Did("mount", 0)
  \/ \E v \in TypedInputs : mounted /\ typePathDebounced("hdr", v) /\ Did("setConfig", 0)
  \/ \E v \in ToolPathInputs : mounted /\ updatePath("ffmpeg", v) /\ Did("updatePath", 0)
  \/ PathsSaveFires /\ Did("setToolPaths", 0)
  \/ ConfigSaveFires /\ Did("configSave", 0)
  \/ ToolPathsSaveFires /\ Did("toolPathsSave", 0)
  \/ Elapse(DebounceMs \div 2) /\ Did("Elapse", 0)

\* The view mounts, a timeout that is due fires, and time passes.
SpecDebounce ==
  /\ DebounceInit /\ [][DebounceNext]_vars
  /\ WF_vars(MountDebounced /\ Did("mount", 0))
  /\ WF_vars(PathsSaveFires /\ Did("setToolPaths", 0))
  /\ WF_vars(ConfigSaveFires /\ Did("configSave", 0))
  /\ WF_vars(ToolPathsSaveFires /\ Did("toolPathsSave", 0))
  /\ WF_vars(Elapse(DebounceMs \div 2) /\ Did("Elapse", 0))

\* The pending write of a group after a change of the group at this step: one,
\* due 400 ms from now, of the new value.
C24_Rescheduled(pending, value) == pending = <<[due |-> now + 400, value |-> value]>>

\* C24: in the debounced-persistence revision a change of config or of the tool
\* paths leaves exactly one pending write of that group, due 400 ms later and
\* holding the new value, and leaves the other group's pending write alone; a
\* write happens no earlier than it is due, stores the latest in-memory value
\* of its group and leaves the other group's stored value alone; and once the
\* changes stop, the stored value of each group eventually equals, and stays
\* equal to, the in-memory value.
C24_DebouncedPersistence ==
  /\ [][/\ lastOp'.op = "setConfig"
             => /\ C24_Rescheduled(debounce'.configSave, config')
                /\ debounce'.toolPathsSave = debounce.toolPathsSave
        /\ lastOp'.op = "setToolPaths"
             => /\ C24_Rescheduled(debounce'.toolPathsSave, toolPaths')
                /\ debounce'.configSave = debounce.configSave
        /\ lastOp'.op = "configSave"
             => /\ now >= debounce.configSave[1].due
                /\ storage'.config = stringifyWholeConfig(config)
                /\ storage'.tools = storage.tools
        /\ lastOp'.op = "toolPathsSave"
             => /\ now >= debounce.toolPathsSave[1].due
                /\ storage'.tools = stringifyTools(toolPaths)
                /\ storage'.config = storage.config]_vars
  /\ (<>[][lastOp'.op \notin {"mount", "setConfig", "setToolPaths"}]_vars)
       => <>[](/\ storage.config = stringifyWholeConfig(config)
               /\ storage.tools = stringifyTools(toolPaths))

\* C24 witness: config was written 1000 ms into the run, so 400 ms after a change
\* made 200 ms after the first write was due, and holds the empty HDR path the
\* view has; a write of the tool paths edited in the dialog is still pending.
C24_Witness ==
  /\ lastOp.op = "configSave"
  /\ now = 1000
  /\ config.hdrPath = Empty
  /\ storage.config = stringifyWholeConfig(config)
  /\ debounce.configSave = << >>
  /\ Len(debounce.toolPathsSave) = 1 /\ toolPaths.ffmpeg = "ffmpeg"

\* ========================================================== SpecPreset
\* The HDR and DV fields filled by typing and by the folder dialog, and presets
\* saved and applied.  The dialog returns "x", a folder path as the platform
\* gives it, without a trailing separator.
PresetTargets == {"hdr", "dv"}
PresetTyped == {FileA, DirA}

PresetNext ==
  \/ \E t \in PresetTargets, v \in PresetTyped : TextEntry(t, v) /\ Did("other", 0)
  \/ \E t \in PresetTargets : browseFolder(t, NameOther) /\ Did("other", 0)
  \/ savePreset(<<"p">>) /\ Did("savePreset", 0)
  \/ \E i \in 1..Len(presets) :
       handlePresetChange(presets[i].id) /\ Did("applyPreset", presets[i].id)

SpecPreset == Init /\ [][PresetNext]_vars

\* The preset with the given id.
C25_Preset(id) == presets[CHOOSE i \in 1..Len(presets) : presets[i].id = id]

\* C25: applying a preset installs the config, the tool paths, the delay inputs
\* and the show-delays flag the preset was saved with; saving a preset changes
\* none of the form state; and applying a preset right after saving it leaves
\* the form state, the path kinds and the derived mode as they were.
C25_SaveThenApplyIsIdentity ==
  [][/\ lastOp'.op = "applyPreset"
          => /\ config' = C25_Preset(lastOp'.id).config
             /\ toolPaths' = C25_Preset(lastOp'.id).toolPaths
             /\ dvDelayInput' = C25_Preset(lastOp'.id).dvDelayInput
             /\ hdr10plusDelayInput' = C25_Preset(lastOp'.id).hdr10plusDelayInput
             /\ showDelays' = C25_Preset(lastOp'.id).showDelays
     /\ lastOp'.op = "savePreset" => UNCHANGED <<formVars, derivedMode>>
     /\ (lastOp.op = "savePreset" /\ lastOp'.op = "applyPreset")
          => UNCHANGED <<formVars, derivedMode>>]_vars

\* ========================================================== SpecSimRun
\* Host-absent runs that nothing interrupts: the HDR and DV fields typed into,
\* Add to Queue, the selection, Start, and the timeouts of the simulation.
SimInit == Init /\ tauri = FALSE

SimRunNext ==
  \/ \E t \in PresetTargets : TextEntry(t, FileA) /\ Did("other", 0)
  \/ addToQueue /\ Did("other", 0)
  \/ \E k \in 1..Len(queue) : onToggle(queue[k].id) /\ Did("other", 0)
  \/ \E i \in 1..Len(queue), j \in 1..Len(queue) :
       handleReorderQueue(queue[i].id, queue[j].id) /\ Did("other", 0)
  \/ handleStart /\ Did("handleStart", 0)
  \/ \E k \in 1..Len(sims) : SimStep(k) /\ Did("SimStep", k)

\* A timeout that was set fires.
SpecSimRun ==
  /\ SimInit /\ [][SimRunNext]_vars
  /\ WF_vars(\E k \in 1..Len(sims) : SimStep(k) /\ Did("SimStep", k))

\* The run that was started last.
C28_Run == sims[Len(sims)]

\* The item of the queue that the run captured as its j-th.
C28_Item(j) == queue[findIndex(queue, C28_Run.files[j].id)]

\* The six steps are completed at 100 up to some step, which is active unless all
\* are completed, and pending at 0 after it.
C28_StepsInOrder ==
  \E i \in 1..(Len(steps) + 1) :
    /\ \A j \in 1..(i - 1) : steps[j].status = "completed" /\ steps[j].progress = 100
    /\ i <= Len(steps) => steps[i].status = "active"
    /\ \A j \in (i + 1)..Len(steps) : steps[j].status = "pending" /\ steps[j].progress = 0

\* The items are completed at 100 up to the one the run is at, which is
\* processing, and no item after it is processing, in the order the queue had
\* at Start.
C28_ItemsInOrder ==
  /\ \A j \in 1..(C28_Run.q - 1) :
       C28_Item(j).status = "completed" /\ C28_Item(j).progress = 100
  /\ ~C28_Run.done => C28_Item(C28_Run.q).status = "processing"
  /\ \A j \in (C28_Run.q + 1)..Len(C28_Run.files) : C28_Item(j).status # "processing"

\* In every state of a run the steps or items are in order, and a run that has
\* ended left status completed and every step or item completed at 100.
C28_InOrderToCompleted ==
  Len(sims) > 0 =>
    IF C28_Run.mode = "single"
    THEN /\ C28_StepsInOrder
         /\ C28_Run.done
              => /\ status = "completed"
                 /\ \A j \in 1..Len(steps) :
                      steps[j].status = "completed" /\ steps[j].progress = 100
    ELSE /\ C28_ItemsInOrder
         /\ C28_Run.done
              => /\ status = "completed"
                 /\ \A j \in 1..Len(queue) :
                      queue[j].status = "completed" /\ queue[j].progress = 100

SimStopInit ==
  /\ queuedItems(2)
  /\ tauri = FALSE
  /\ unlisten = {} /\ active = {} /\ setupPc = 0

SimStopNext ==
  \/ \E k \in 1..Len(queue) : onToggle(queue[k].id) /\ Did("onToggle", k)
  \/ handleStart /\ Did("handleStart", 0)
  \/ handleStop /\ Did("handleStop", 0)
  \/ \E k \in 1..Len(sims) : SimStep(k) /\ Did("SimStep", k)

SpecSimStop == SimStopInit /\ [][SimStopNext]_vars

\* The simulateProcessing calls that have not returned.
C26_Running == {k \in 1..Len(sims) : ~sims[k].done}

\* C26: in host-absent mode a step of the simulation that follows Stop leaves
\* status idle, the steps as Stop reset them and every queue item pending at 0;
\* and no two simulations run at once.
C26_StopPersists ==
  /\ [][lastOp.op = "handleStop" /\ lastOp'.op = "SimStep" =>
          /\ status' = "idle"
          /\ steps' = steps
          /\ \A j \in 1..Len(queue') :
               queue'[j].status = "pending" /\ queue'[j].progress = 0]_vars
  /\ [](Cardinality(C26_Running) <= 1)

\* ======================================================= SpecSimSubset
\* Host-absent batch runs over a queue of two items whose selection is changed
\* between runs only, so that what is selected during a run is what was
\* selected at its Start.
SimSubsetNext ==
  \/ \E k \in 1..Len(queue) : ~isProcessing /\ onToggle(queue[k].id) /\ Did("onToggle", k)
  \/ handleStart /\ Did("handleStart", 0)
  \/ \E k \in 1..Len(sims) : SimStep(k) /\ Did("SimStep", k)

SpecSimSubset == SimStopInit /\ [][SimSubsetNext]_vars

\* Some but not all items of the queue are selected.
C29_ProperSubset ==
  /\ selectedQueueIds # {}
  /\ \E j \in 1..Len(queue) : queue[j].id \notin selectedQueueIds

\* C29: in host-absent mode no step of a batch run started with a proper subset
\* of the queue selected, its Start included, moves an unselected item from
\* pending at progress 0.
C29_UnselectedUntouched ==
  [][lastOp'.op \in {"handleStart", "SimStep"} /\ status' = "processing"
       /\ C29_ProperSubset =>
       \A j \in 1..Len(queue) :
         (/\ queue[j].id \notin selectedQueueIds
          /\ queue[j].status = "pending"
          /\ queue[j].progress = 0)
           => queue'[j].status = "pending" /\ queue'[j].progress = 0]_vars

\* ====================================================== SpecQueueFrame
\* processing:queue events for a queue of two items: events for each item and
\* for an id that is in no queue, with and without the optional worker count and
\* file total, between changes of the selection.
QueueFrameInit ==
  /\ queuedItems(2)
  /\ tauri = TRUE
  /\ listenersReady

\* The payloads: id, status, progress, current step, active workers, file total.
QueueFramePayloads ==
  {<<id, e[1], e[2], e[3], e[4], e[5]>> :
     id \in 1..3,
     e \in {<<"processing", 20, <<"s">>, Some(2), Some(5)>>,
            <<"processing", 20, Empty, Absent, Absent>>,
            <<"completed", 100, Empty, Absent, Some(4)>>,
            <<"pending", 0, Empty, Absent, Absent>>}}

QueueFrameNext ==
  \/ \E k \in 1..Len(queue) : onToggle(queue[k].id) /\ Did("other", 0)
  \/ \E p \in QueueFramePayloads :
       onQueue(p[1], p[2], p[3], p[4], p[5], p[6]) /\ Did("onQueue", p)

SpecQueueFrame == QueueFrameInit /\ [][QueueFrameNext]_vars

\* What of an item no progress event changes: its id and its source and output
\* paths and names.
C27_Identity(item) ==
  <<item.id, item.hdrFile, item.dvFile, item.outputFile, item.hdrPath, item.dvPath,
    item.outputPath>>

\* C27: a processing:queue event leaves every item but the one with the payload's
\* id as it was, keeps the queue's length and order and every item's id and
\* paths, and keeps the selection; an event for an id that is in no queue
\* changes nothing and stores no ETA window; an absent worker count or file
\* total in the payload keeps the item's previous value.
C27_QueueEventFrame ==
  [][lastOp'.op = "onQueue" =>
       LET p == lastOp'.id
           at == {k \in 1..Len(queue) : queue[k].id = p[1]}
       IN /\ Len(queue') = Len(queue)
          /\ selectedQueueIds' = selectedQueueIds
          /\ \A k \in 1..Len(queue) :
               /\ C27_Identity(queue'[k]) = C27_Identity(queue[k])
               /\ k \notin at => queue'[k] = queue[k]
               /\ k \in at =>
                    /\ queue'[k].status = p[2]
                    /\ queue'[k].progress = p[3]
                    /\ queue'[k].activeWorkers
                         = (IF p[5] = Absent THEN queue[k].activeWorkers ELSE p[5])
                    /\ queue'[k].fileTotal
                         = (IF p[6] = Absent THEN queue[k].fileTotal ELSE p[6])
          /\ \A id \in (DOMAIN queueMetaRef \cup DOMAIN queueMetaRef') \ {p[1]} :
               /\ id \in DOMAIN queueMetaRef \cap DOMAIN queueMetaRef'
               /\ queueMetaRef'[id] = queueMetaRef[id]
          /\ at = {} =>
               /\ p[1] \notin DOMAIN queueMetaRef'
               /\ UNCHANGED <<formVars, presetVars, queueVars, runVars, logs, metaVars,
                              hostVars, sims, notifyVars, listenVars, envVars>>]_vars

\* C27 witness: an event without worker count and file total arrived for the
\* second item, which keeps the 2 workers and the total of 5 of an earlier event
\* while the event put it back from completed to processing at 20; the first
\* item is as it was queued.
C27_Witness ==
  /\ lastOp.op = "onQueue"
  /\ lastOp.id = <<2, "processing", 20, Empty, Absent, Absent>>
  /\ queue[2].status = "processing"
  /\ queue[2].etaSeconds = Some(0)
  /\ queue[2].activeWorkers = Some(2)
  /\ queue[2].fileTotal = Some(5)
  /\ queue[1] = [QueuedItem EXCEPT !.id = 1]

\* ======================================================= SpecSelection
\* The queue and its selection from an empty queue with the host present: the
\* HDR and DV fields typed into, Add to Queue, the item checkboxes, select-all,
\* drags, processing:queue events and Clear.
SelectionInit ==
  /\ queuedItems(0)
  /\ tauri = TRUE
  /\ listenersReady

\* The ids the queue list passes to onToggle: it shows one checkbox per item of
\* the queue.
toggleIds == {queue[k].id : k \in 1..Len(queue)}

\* The ids a drag or an event can carry: those a queue can hold and one more.
SelectionIds == 1..(MaxIds + 1)

SelectionNext ==
  \/ \E t \in PresetTargets : TextEntry(t, FileA) /\ Did("other", 0)
  \/ addToQueue /\ Did("addToQueue", 0)
  \/ \E id \in toggleIds : onToggle(id) /\ Did("onToggle", id)
  \/ onToggleAll /\ Did("onToggleAll", 0)
  \/ \E s \in SelectionIds, t \in SelectionIds :
       handleReorderQueue(s, t) /\ Did("handleReorderQueue", <<s, t>>)
  \/ \E id \in SelectionIds, e \in {<<"pending", 0>>, <<"completed", 100>>} :
       onQueue(id, e[1], e[2], Empty, Absent, Absent) /\ Did("onQueue", id)
  \/ handleClear /\ Did("handleClear", 0)

SpecSelection == SelectionInit /\ [][SelectionNext]_vars

\* The set of ids of a queue.
C30_Ids(q) == {q[k].id : k \in 1..Len(q)}

====
